---- MODULE Spec2Model ----
(***************************************************************************)
(* Model of the scaffold-sh/aws-serverless-docker composition pass: the    *)
(* root stack (main.ts) reads the environment, builds the network,         *)
(* computing, continuous-deployment and dashboard constructs in sequence,  *)
(* publishes the outputs and synthesizes.  Every constructor is an action; *)
(* a thrown Error moves the pass to "failed" and nothing is synthesized.   *)
(*                                                                         *)
(* Strings the code inspects (environment variable names, DOMAIN_NAMES,    *)
(* numeric inputs) are sequences of one-character strings, so prefix       *)
(* tests, stripping, lower-casing, splitting and Number() are computed.    *)
(* Strings the code only copies are TLA+ strings.                          *)
(***************************************************************************)
EXTENDS Integers, Sequences, FiniteSets, TLC

(***************************************************************************)
(* Bounds of the model                                                     *)
(***************************************************************************)
MaxZones == 3
MaxEnvVars == 2
MaxTasks == 1

\* Largest zone count of the compositions that stop after the subnets
MaxSubnetZones == 129

(***************************************************************************)
(* String helpers                                                          *)
(***************************************************************************)
UpperCaseLetters ==
  <<"A","B","C","D","E","F","G","H","I","J","K","L","M",
    "N","O","P","Q","R","S","T","U","V","W","X","Y","Z">>

LowerCaseLetters ==
  <<"a","b","c","d","e","f","g","h","i","j","k","l","m",
    "n","o","p","q","r","s","t","u","v","w","x","y","z">>

Digits == <<"0","1","2","3","4","5","6","7","8","9">>

Range(s) == {s[i] : i \in 1..Len(s)}

\* String.prototype.toLowerCase, one character
LowerChar(c) ==
  IF \E i \in 1..26 : UpperCaseLetters[i] = c
  THEN LowerCaseLetters[CHOOSE i \in 1..26 : UpperCaseLetters[i] = c]
  ELSE c

\* String.prototype.toLowerCase
ToLowerCase(s) == [i \in 1..Len(s) |-> LowerChar(s[i])]

\* String.prototype.startsWith
StartsWith(s, prefix) ==
  /\ Len(s) >= Len(prefix)
  /\ SubSeq(s, 1, Len(prefix)) = prefix

\* s.replace(/^prefix/, "")
StripPrefix(s, prefix) ==
  IF StartsWith(s, prefix) THEN SubSeq(s, Len(prefix) + 1, Len(s)) ELSE s

\* name.match(/^[a-z0-9_-]+$/gi)
MatchesNameFormat(s) ==
  /\ Len(s) >= 1
  /\ \A i \in 1..Len(s) :
       s[i] \in Range(UpperCaseLetters) \cup Range(LowerCaseLetters)
                \cup Range(Digits) \cup {"_", "-"}

\* Template-literal rendering of a non-negative integer
RECURSIVE NumberToString(_)
NumberToString(n) ==
  IF n < 10 THEN <<Digits[n + 1]>>
  ELSE NumberToString(n \div 10) \o <<Digits[(n % 10) + 1]>>

DigitValue(c) == (CHOOSE i \in 1..10 : Digits[i] = c) - 1

RECURSIVE DigitsValue(_)
DigitsValue(s) ==
  IF Len(s) = 0 THEN 0
  ELSE 10 * DigitsValue(SubSeq(s, 1, Len(s) - 1)) + DigitValue(s[Len(s)])

IsDigits(s) == Len(s) >= 1 /\ \A i \in 1..Len(s) : s[i] \in Range(Digits)

NaN == [nan |-> TRUE, n |-> 0]

\* Number(string) for the inputs of the model: "" is 0, an optionally
\* signed run of digits is its value, anything else is NaN.
Number(s) ==
  IF Len(s) = 0 THEN [nan |-> FALSE, n |-> 0]
  ELSE IF IsDigits(s) THEN [nan |-> FALSE, n |-> DigitsValue(s)]
  ELSE IF s[1] = "-" /\ IsDigits(Tail(s))
       THEN [nan |-> FALSE, n |-> 0 - DigitsValue(Tail(s))]
  ELSE NaN

\* JavaScript truthiness of a number: NaN and 0 are falsy
Truthy(num) == ~num.nan /\ num.n # 0

\* Math.floor(n * 1.5) on integers
FloorOneAndHalf(n) == (3 * n) \div 2

\* Math.ceil(n * 1.5) on integers
CeilOneAndHalf(n) == (3 * n + 1) \div 2

\* Math.max
Max(a, b) == IF a >= b THEN a ELSE b

\* A split that gives the empty string no element
RECURSIVE SplitDroppingEmpty(_)
SplitDroppingEmpty(s) ==
  IF Len(s) = 0 THEN <<>>
  ELSE IF \E i \in 1..Len(s) : s[i] = ","
  THEN LET k == CHOOSE i \in 1..Len(s) :
                  s[i] = "," /\ \A j \in 1..(i - 1) : s[j] # ","
       IN <<SubSeq(s, 1, k - 1)>> \o SplitDroppingEmpty(SubSeq(s, k + 1, Len(s)))
  ELSE <<s>>

\* String.prototype.split(",")
RECURSIVE Split(_)
Split(s) ==
  IF \E i \in 1..Len(s) : s[i] = ","
  THEN LET k == CHOOSE i \in 1..Len(s) :
                  s[i] = "," /\ \A j \in 1..(i - 1) : s[j] # ","
       IN <<SubSeq(s, 1, k - 1)>> \o Split(SubSeq(s, k + 1, Len(s)))
  ELSE <<s>>

(***************************************************************************)
(* Inputs                                                                  *)
(***************************************************************************)
APPLICATION_ == <<"A","P","P","L","I","C","A","T","I","O","N","_">>

BUILD_ == <<"B","U","I","L","D","_">>

\* Names that may appear in process.env besides the fixed configuration
\* names: APPLICATION_K, APPLICATION_k, BUILD_K, APPLICATION_BUILD_K, HOME
\* and the malformed "BAD!".
EnvNameUniverse ==
  { APPLICATION_ \o <<"K">>,
    APPLICATION_ \o <<"k">>,
    BUILD_ \o <<"K">>,
    APPLICATION_ \o BUILD_ \o <<"K">>,
    <<"H","O","M","E">>,
    <<"B","A","D","!">> }

\* Object.keys(process.env): distinct names in the order of the environment
EnvNameLists ==
  UNION { { s \in [1..n -> EnvNameUniverse] :
              \A i, j \in 1..n : i # j => s[i] # s[j] } : n \in 0..MaxEnvVars }

\* Values of NUMBER_OF_AVAILABILITY_ZONES_USED: "", "x", "0", "-1", "1".."MaxZones"
ZonesInputs ==
  { <<>>, <<"x">>, <<"0">>, <<"-", "1">> } \cup { NumberToString(n) : n \in 1..MaxZones }

\* Values of CONTAINER_LISTEN_PORT: "0" and "80"
PortInputs == { <<"0">>, <<"8", "0">> }

ExampleCom == <<"e","x","a","m","p","l","e",".","c","o","m">>

\* A list of three domain names, not in alphabetical order
ThreeDomainNames == << <<"c",".","i","o">>, <<"a",".","i","o">>, <<"b",".","i","o">> >>

\* Values of DOMAIN_NAMES: "", "example.com", "a.io,b.io"
DomainNamesInputs ==
  { <<>>, ExampleCom, <<"a",".","i","o",",","b",".","i","o">> }

\* Values of ENABLE_AUTO_SCALING and ENABLE_HTTPS
FlagInputs == { "true", "false" }

\* The environments: every combination of the values above for the lists
\* of fewer than MaxEnvVars names; the longest lists with every zone count
\* and auto-scaling flag, port 80, one domain name and HTTPS off
EnvInputs ==
  { env \in [ names : EnvNameLists,
              NUMBER_OF_AVAILABILITY_ZONES_USED : ZonesInputs,
              CONTAINER_LISTEN_PORT : PortInputs,
              DOMAIN_NAMES : DomainNamesInputs,
              ENABLE_AUTO_SCALING : FlagInputs,
              ENABLE_HTTPS : FlagInputs ] :
      \/ Len(env.names) < MaxEnvVars
      \/ /\ env.CONTAINER_LISTEN_PORT = <<"8", "0">>
         /\ env.DOMAIN_NAMES = ExampleCom
         /\ env.ENABLE_HTTPS = "false" }

NoEnv ==
  [ names |-> <<>>,
    NUMBER_OF_AVAILABILITY_ZONES_USED |-> <<>>,
    CONTAINER_LISTEN_PORT |-> <<>>,
    DOMAIN_NAMES |-> <<>>,
    ENABLE_AUTO_SCALING |-> "false",
    ENABLE_HTTPS |-> "false" ]

\* Percentages a caller of ComputingConstruct may pass
LimitPercentInputs == { 0, 1, 100, 101 }

\* Properties handed to the constructs (INewtorkProps, IComputingConstructProps).
\* natGatewaysWithheld is the number of NAT gateways a caller that wires
\* RouteTablesConstruct itself leaves out of its natGateways list, and
\* privateSubnetsWithheld the number it leaves out of its privateSubnets list.
NoProps ==
  [ domainNames |-> <<>>,
    enableHttps |-> FALSE,
    numberOfAvailabilityZonesUsed |-> 0,
    enableAutoScaling |-> FALSE,
    autoScalingCpuLimitPercent |-> 0,
    autoScalingMemoryLimitPercent |-> 0,
    minimumNumberOfRunningFargateTasks |-> 0,
    maximumNumberOfRunningFargateTasks |-> 0,
    environmentVariables |-> <<>>,
    buildsEnvironmentVariables |-> <<>>,
    containerListenPort |-> 0,
    natGatewaysWithheld |-> 0,
    privateSubnetsWithheld |-> 0 ]

(***************************************************************************)
(* Values of descriptor fields and overrides                               *)
(***************************************************************************)
Str(s) == [t |-> "str", v |-> <<s>>]

List(items) == [t |-> "list", v |-> items]

Null == [t |-> "null", v |-> <<>>]

\* Identity of a descriptor: its Terraform type and its construct id
Key(type, base, suffix) == <<type, base>> \o suffix

\* Token.asString(resource.attribute)
Ref(key, attribute) == [t |-> "ref", v |-> key \o <<attribute>>]

\* !value in JavaScript, for the values above
Falsy(val) == val.t = "null" \/ (val.t = "str" /\ val.v = <<"">>)

(***************************************************************************)
(* Descriptors                                                             *)
(***************************************************************************)
Units == <<"network", "computing", "continuous_deployment", "dashboard">>

\* A descriptor in the construct tree
Descriptor(kind, unit, scope, type, base, suffix, cfg, uses) ==
  [ kind |-> kind,
    unit |-> unit,
    scope |-> scope,
    type |-> type,
    id |-> [base |-> base, suffix |-> suffix],
    cfg |-> cfg,
    uses |-> uses,
    ovr |-> {} ]

\* new <Resource>(scope, id, config)
Resource(unit, scope, type, base, suffix, cfg, uses) ==
  Descriptor("resource", unit, scope, type, base, suffix, cfg, uses)

\* new DataAws<Source>(scope, id, config)
DataSource(unit, scope, type, base, suffix, cfg, uses) ==
  Descriptor("data", unit, scope, type, base, suffix, cfg, uses)

KeyOf(d) == Key(d.type, d.id.base, d.id.suffix)

\* The descriptors of one type and id stem, in creation order
Select(t, type, base) ==
  SelectSeq(t, LAMBDA d : d.type = type /\ d.id.base = base)

\* Number of iterations of "for (let i = 0; i < n; ++i)"
LoopCount(n) == IF n > 0 THEN n ELSE 0

\* resource.addOverride(path, value): the last write to a path wins
addOverride(d, path, value) ==
  [d EXCEPT !.ovr = {o \in @ : o.path # path} \cup {[path |-> path, val |-> value]}]

\* constructs' Node.addChild refuses a second child with the same id in a scope
HasChild(t, scope, id) ==
  \E i \in 1..Len(t) : t[i].scope = scope /\ t[i].id = id

IndicesOfType(t, type) == {i \in 1..Len(t) : t[i].type = type}

IndicesOf(t, type, base) ==
  {i \in 1..Len(t) : t[i].type = type /\ t[i].id.base = base}

CountOf(t, type, base) == Cardinality(IndicesOf(t, type, base))


(***************************************************************************)
(* Order of the constructor calls                                          *)
(***************************************************************************)
\* The computing unit built before the network unit
StagesComputingFirst ==
  << "start",
     "computing.containers_logs_group", "computing.environment_variables",
     "computing.cluster", "computing.repository", "computing.task",
     "computing.service", "computing.auto_scaling",
     "network.vpc", "network.internet_gateway", "network.subnets",
     "network.elastic_ips", "network.nat_gateways", "network.route_tables",
     "network.ssl", "network.application_load_balancer",
     "patch_egress_rule",
     "continuous_deployment.builds", "continuous_deployment.pipeline",
     "dashboard",
     "outputs", "synth", "done" >>

\* The constructors in the order main.ts, NetworkConstruct, ComputingConstruct
\* and ContinuousDeploymentConstruct call them
Stages ==
  << "start",
     "network.vpc", "network.internet_gateway", "network.subnets",
     "network.elastic_ips", "network.nat_gateways", "network.route_tables",
     "network.ssl", "network.application_load_balancer",
     "computing.containers_logs_group", "computing.environment_variables",
     "computing.cluster", "computing.repository", "computing.task",
     "computing.service", "computing.auto_scaling",
     "patch_egress_rule",
     "continuous_deployment.builds", "continuous_deployment.pipeline",
     "dashboard",
     "outputs", "synth", "done" >>

StageIndex(stage) == CHOOSE k \in 1..Len(Stages) : Stages[k] = stage

\* The statement that follows a constructor that returned
After(stage) == Stages[StageIndex(stage) + 1]

(***************************************************************************)
(* State                                                                   *)
(***************************************************************************)
VARIABLES
  input,      \* who composes ("main": main.ts from process.env; "direct": a
              \* caller of the exported constructs with its own properties)
  pc,         \* the constructor the pass is about to run
  props,      \* the properties the root derived for the constructs
  tree,       \* the descriptors created so far, in creation order
  sslValidationDnsRecords,  \* NetworkConstruct.sslValidationDnsRecords
  unitLog,    \* begin/end of the four units, with the units whose outputs
              \* were passed to the constructor
  outputs,    \* the TerraformOutputs declared by the root
  emitted,    \* what app.synth() wrote: descriptors and outputs
  error,      \* message of the Error that ended the pass, "" if none
  failedAt,   \* pc at which the Error was thrown
  run,        \* 1 for the first pass over the input, 2 for the second
  previous,   \* what the first pass emitted, once the second has started
  terraform   \* what the provisioning tool has done with the pipeline's
              \* resources (its phase, the resources that exist, the
              \* local-exec commands run so far) and with the service (its
              \* live desired count, 0 while it does not exist; the desired
              \* count of the configuration applied last; whether a
              \* configuration was applied to the existing service)

vars ==
  << input, pc, props, tree, sslValidationDnsRecords, unitLog, outputs,
     emitted, error, failedAt, run, previous, terraform >>

NothingEmitted == [resources |-> <<>>, outputs |-> <<>>]

\* The provisioning tool before it has created anything
NothingApplied ==
  [ phase |-> "apply", created |-> {}, ran |-> <<>>,
    desiredCount |-> 0, planned |-> 0, reapplied |-> FALSE ]

\* The properties a direct caller passes: no or one domain name with every
\* combination of the other values, one of the two lists of the route tables
\* at most being cut short; three domain names with limits and task counts
\* that pass
DirectProps ==
  { p \in [ domainNames : { <<>>, <<ExampleCom>> },
            enableHttps : { FALSE },
            numberOfAvailabilityZonesUsed : 1..MaxZones,
            enableAutoScaling : BOOLEAN,
            autoScalingCpuLimitPercent : LimitPercentInputs,
            autoScalingMemoryLimitPercent : LimitPercentInputs,
            minimumNumberOfRunningFargateTasks : 0..MaxTasks,
            maximumNumberOfRunningFargateTasks : 0..MaxTasks,
            environmentVariables : { <<>> },
            buildsEnvironmentVariables : { <<>> },
            containerListenPort : { 80 },
            natGatewaysWithheld : 0..1,
            privateSubnetsWithheld : 0..1 ] :
      p.natGatewaysWithheld + p.privateSubnetsWithheld <= 1 }
  \cup
  [ domainNames : { ThreeDomainNames },
    enableHttps : { FALSE },
    numberOfAvailabilityZonesUsed : 1..MaxZones,
    enableAutoScaling : { FALSE },
    autoScalingCpuLimitPercent : { 100 },
    autoScalingMemoryLimitPercent : { 100 },
    minimumNumberOfRunningFargateTasks : { 1 },
    maximumNumberOfRunningFargateTasks : { 1 },
    environmentVariables : { <<>> },
    buildsEnvironmentVariables : { <<>> },
    containerListenPort : { 80 },
    natGatewaysWithheld : { 0 },
    privateSubnetsWithheld : { 0 } ]

Inputs ==
  [ caller : {"main"}, env : EnvInputs, props : {NoProps} ]
    \cup [ caller : {"direct"}, env : {NoEnv}, props : DirectProps ]

Fresh ==
  /\ pc = "start"
  /\ props = NoProps
  /\ tree = <<>>
  /\ sslValidationDnsRecords = <<>>
  /\ unitLog = <<>>
  /\ outputs = <<>>
  /\ emitted = NothingEmitted
  /\ error = ""
  /\ failedAt = ""

Init ==
  /\ input \in Inputs
  /\ Fresh
  /\ run = 1
  /\ previous = NothingEmitted
  /\ terraform = NothingApplied

\* throw new Error(message)
Throw(message) ==
  /\ pc' = "failed"
  /\ error' = message
  /\ failedAt' = pc

NoThrow == UNCHANGED << error, failedAt >>

Begin(unit, from) == [unit |-> unit, ev |-> "begin", from |-> from]

End(unit) == [unit |-> unit, ev |-> "end", from |-> {}]

(***************************************************************************)
(* Root: reading the configuration (main.ts)                               *)
(***************************************************************************)
autoScalingMemoryLimitPercent == 75

autoScalingCpuLimitPercent == 75

\* Object.keys(process.env).filter(startsWith(prefix)) reduced into an
\* object keyed by the stripped name; its keys in insertion order.
RECURSIVE StrippedKeys(_, _)
StrippedKeys(names, prefix) ==
  IF Len(names) = 0 THEN <<>>
  ELSE LET rest == StrippedKeys(SubSeq(names, 1, Len(names) - 1), prefix)
           last == names[Len(names)]
       IN IF ~StartsWith(last, prefix) THEN rest
          ELSE IF StripPrefix(last, prefix) \in Range(rest) THEN rest
          ELSE Append(rest, StripPrefix(last, prefix))

\* The properties main.ts derives from process.env
PropsFromEnv(env) ==
  LET numberOfAvailabilityZonesUsed == Number(env.NUMBER_OF_AVAILABILITY_ZONES_USED).n
  IN [ domainNames |-> Split(env.DOMAIN_NAMES),
       enableHttps |-> (env.ENABLE_HTTPS = "true"),
       numberOfAvailabilityZonesUsed |-> numberOfAvailabilityZonesUsed,
       enableAutoScaling |-> (env.ENABLE_AUTO_SCALING = "true"),
       autoScalingCpuLimitPercent |-> autoScalingCpuLimitPercent,
       autoScalingMemoryLimitPercent |-> autoScalingMemoryLimitPercent,
       minimumNumberOfRunningFargateTasks |-> numberOfAvailabilityZonesUsed,
       maximumNumberOfRunningFargateTasks |-> CeilOneAndHalf(numberOfAvailabilityZonesUsed),
       environmentVariables |-> StrippedKeys(env.names, APPLICATION_),
       buildsEnvironmentVariables |-> StrippedKeys(env.names, BUILD_),
       containerListenPort |-> Number(env.CONTAINER_LISTEN_PORT).n,
       natGatewaysWithheld |-> 0,
       privateSubnetsWithheld |-> 0 ]

CurrentRegionKey == Key("data.aws_region", "current_region", <<>>)

CurrentAccountKey == Key("data.aws_caller_identity", "current_account", <<>>)

\* new DataAwsRegion(this, "current_region"), new DataAwsCallerIdentity(this, "current_account")
RootDataSources ==
  << DataSource("root", "", "data.aws_region", "current_region", <<>>, [name |-> "current_region"], {}),
     DataSource("root", "", "data.aws_caller_identity", "current_account", <<>>, [name |-> "current_account"], {}) >>

\* ScaffoldAWSServerlessDocker.constructor up to the first construct
ReadConfiguration ==
  /\ pc = "start"
  /\ input.caller = "main"
  /\ IF \E i \in 1..Len(input.env.names) : ~MatchesNameFormat(input.env.names[i])
     THEN /\ Throw("Environment variable names must match /^[a-z0-9_-]+$/i format")
          /\ UNCHANGED << props, tree >>
     ELSE IF ~Truthy(Number(input.env.NUMBER_OF_AVAILABILITY_ZONES_USED))
     THEN /\ Throw("Invalid number of availability zones used")
          /\ UNCHANGED << props, tree >>
     ELSE IF ~Truthy(Number(input.env.CONTAINER_LISTEN_PORT))
     THEN /\ Throw("Invalid container listen port")
          /\ UNCHANGED << props, tree >>
     ELSE /\ props' = PropsFromEnv(input.env)
          /\ tree' = RootDataSources
          /\ pc' = After(pc)
          /\ NoThrow
  /\ UNCHANGED << input, sslValidationDnsRecords, unitLog, outputs,
                  emitted, run, previous, terraform >>

\* A caller that instantiates the constructs with properties of its own
DirectCall ==
  /\ pc = "start"
  /\ input.caller = "direct"
  /\ props' = input.props
  /\ tree' = RootDataSources
  /\ pc' = After(pc)
  /\ NoThrow
  /\ UNCHANGED << input, sslValidationDnsRecords, unitLog, outputs,
                  emitted, run, previous, terraform >>


(***************************************************************************)
(* Null overrides (utils/overrideNullValuesFor*.ts)                        *)
(***************************************************************************)
\* propertiesToOverride of overrideNullValuesForSecurityGroupRule
securityGroupRulePropertiesToOverride ==
  << <<"description", "description">>,
     <<"ipv6CidrBlocks", "ipv6_cidr_blocks">>,
     <<"prefixListIds", "prefix_list_ids">>,
     <<"sourceSecurityGroupId", "source_security_group_id">>,
     <<"self", "self">>,
     <<"cidrBlocks", "cidr_blocks">> >>

\* propertiesToOverride of overrideNullValuesForSecurityGroup
securityGroupPropertiesToOverride ==
  << <<"description", "description">>,
     <<"ipv6CidrBlocks", "ipv6_cidr_blocks">>,
     <<"prefixListIds", "prefix_list_ids">>,
     <<"securityGroups", "security_groups">>,
     <<"self", "self">>,
     <<"cidrBlocks", "cidr_blocks">> >>

\* propertiesToOverride of overrideNullValuesForRouteTable
routeTablePropertiesToOverride ==
  << <<"egressOnlyGatewayId", "egress_only_gateway_id">>,
     <<"instanceId", "instance_id">>,
     <<"ipv6CidrBlock", "ipv6_cidr_block">>,
     <<"localGatewayId", "local_gateway_id">>,
     <<"natGatewayId", "nat_gateway_id">>,
     <<"networkInterfaceId", "network_interface_id">>,
     <<"transitGatewayId", "transit_gateway_id">>,
     <<"vpcPeeringConnectionId", "vpc_peering_connection_id">>,
     <<"gatewayId", "gateway_id">> >>

\* !(element as any)[property]
NotSet(element, property) ==
  property \notin DOMAIN element \/ Falsy(element[property])

\* propertiesToOverride.forEach over one element (or over the resource itself)
RECURSIVE OverrideNullValues(_, _, _, _)
OverrideNullValues(d, element, path, properties) ==
  IF Len(properties) = 0 THEN d
  ELSE LET property == Head(properties)
           next == IF NotSet(element, property[1])
                   THEN addOverride(d, path \o <<property[2]>>, Null)
                   ELSE d
       IN OverrideNullValues(next, element, path, Tail(properties))

\* list.forEach((element, index) => propertiesToOverride.forEach(...)), from index k
RECURSIVE OverrideNullValuesInList(_, _, _, _, _)
OverrideNullValuesInList(d, list, name, k, properties) ==
  IF k > Len(list) THEN d
  ELSE OverrideNullValuesInList(
         OverrideNullValues(d, list[k], <<name, NumberToString(k - 1)>>, properties),
         list, name, k + 1, properties)

\* resource.list?.length
HasElements(d, name) == name \in DOMAIN d.cfg /\ Len(d.cfg[name]) > 0

overrideNullValuesForSecurityGroupRule(securityGroupRule) ==
  OverrideNullValues(securityGroupRule, securityGroupRule.cfg, <<>>,
                     securityGroupRulePropertiesToOverride)

\* The egress list left out
overrideNullValuesForSecurityGroupIngressOnly(securityGroup) ==
  IF HasElements(securityGroup, "ingress")
  THEN OverrideNullValuesInList(securityGroup, securityGroup.cfg.ingress,
                                "ingress", 1, securityGroupPropertiesToOverride)
  ELSE securityGroup

overrideNullValuesForSecurityGroup(securityGroup) ==
  LET withIngress ==
        IF HasElements(securityGroup, "ingress")
        THEN OverrideNullValuesInList(securityGroup, securityGroup.cfg.ingress,
                                      "ingress", 1, securityGroupPropertiesToOverride)
        ELSE securityGroup
  IN IF HasElements(securityGroup, "egress")
     THEN OverrideNullValuesInList(withIngress, securityGroup.cfg.egress,
                                   "egress", 1, securityGroupPropertiesToOverride)
     ELSE withIngress

overrideNullValuesForRouteTable(routeTable) ==
  IF HasElements(routeTable, "route")
  THEN OverrideNullValuesInList(routeTable, routeTable.cfg.route, "route", 1,
                                routeTablePropertiesToOverride)
  ELSE routeTable

(***************************************************************************)
(* Network unit (lib/constructs/network)                                   *)
(***************************************************************************)
VpcKey == Key("aws_vpc", "vpc", <<>>)

InternetGatewayKey == Key("aws_internet_gateway", "internet_gateway", <<>>)

AvailabilityZonesKey == Key("data.aws_availability_zones", "availability_zone", <<>>)

\* VpcConstruct.constructor; the first statement of NetworkConstruct.constructor
VpcConstruct ==
  /\ pc = "network.vpc"
  /\ unitLog' = Append(unitLog, Begin("network", {}))
  /\ tree' = Append(tree,
       Resource("network", "network/vpc", "aws_vpc", "vpc", <<>>,
                [cidrBlock |-> "10.0.0.0/16"], {}))
  /\ pc' = After(pc)
  /\ NoThrow
  /\ UNCHANGED << input, props, sslValidationDnsRecords, outputs, emitted, run, previous, terraform >>

\* InternetGatewayConstruct.constructor
InternetGatewayConstruct ==
  /\ pc = "network.internet_gateway"
  /\ tree' = Append(tree,
       Resource("network", "network/internet_gateway", "aws_internet_gateway",
                "internet_gateway", <<>>, [vpcId |-> Ref(VpcKey, "id")], {VpcKey}))
  /\ pc' = After(pc)
  /\ NoThrow
  /\ UNCHANGED << input, props, sslValidationDnsRecords, unitLog, outputs, emitted, run, previous, terraform >>

\* new Subnet(this, `private_subnet_${i + 1}`, ...) for the loop index i
PrivateSubnet(i) ==
  Resource("network", "network/subnets", "aws_subnet", "private_subnet_",
           NumberToString(i + 1),
           [ availabilityZone |-> i, newbits |-> 8, netnum |-> i,
             vpcId |-> Ref(VpcKey, "id"), mapPublicIpOnLaunch |-> FALSE ],
           {VpcKey, AvailabilityZonesKey})

\* new Subnet(this, `public_subnet_${i + 1}`, ...) for the loop index i
PublicSubnet(i) ==
  Resource("network", "network/subnets", "aws_subnet", "public_subnet_",
           NumberToString(i + 1),
           [ availabilityZone |-> i, newbits |-> 8, netnum |-> i + 128,
             vpcId |-> Ref(VpcKey, "id"), mapPublicIpOnLaunch |-> TRUE ],
           {VpcKey, AvailabilityZonesKey})

\* The second loop bounded by the zone count alone
PublicSubnetCountWithoutMinimum(numberOfAvailabilityZonesUsed) ==
  LoopCount(numberOfAvailabilityZonesUsed)

\* Number of public subnets: the bound of the second loop
PublicSubnetCount(numberOfAvailabilityZonesUsed) ==
  LoopCount(Max(numberOfAvailabilityZonesUsed, 2))

\* SubnetsConstruct.constructor
SubnetsConstruct ==
  /\ pc = "network.subnets"
  /\ tree' = tree
       \o << DataSource("network", "network/subnets", "data.aws_availability_zones",
                        "availability_zone", <<>>, [name |-> "availability_zone"], {}) >>
       \o [k \in 1..LoopCount(props.numberOfAvailabilityZonesUsed) |-> PrivateSubnet(k - 1)]
       \o [k \in 1..PublicSubnetCount(props.numberOfAvailabilityZonesUsed) |-> PublicSubnet(k - 1)]
  /\ pc' = After(pc)
  /\ NoThrow
  /\ UNCHANGED << input, props, sslValidationDnsRecords, unitLog, outputs, emitted, run, previous, terraform >>

\* new Eip(this, `elastic_ip_${i + 1}`, ...)
ElasticIp(i) ==
  Resource("network", "network/elastic_ips", "aws_eip", "elastic_ip_",
           NumberToString(i + 1), [vpc |-> TRUE], {InternetGatewayKey})

\* ElasticIpsConstruct.constructor
ElasticIpsConstruct ==
  /\ pc = "network.elastic_ips"
  /\ tree' = tree
       \o [k \in 1..LoopCount(props.numberOfAvailabilityZonesUsed) |-> ElasticIp(k - 1)]
  /\ pc' = After(pc)
  /\ NoThrow
  /\ UNCHANGED << input, props, sslValidationDnsRecords, unitLog, outputs, emitted, run, previous, terraform >>

\* Every NAT gateway placed in the first public subnet
NatGatewayInFirstPublicSubnet(i, elasticIps, publicSubnets) ==
  Resource("network", "network/nat_gateways", "aws_nat_gateway", "nat_gateway_",
           NumberToString(i + 1),
           [ allocationId |-> Ref(KeyOf(elasticIps[i + 1]), "id"),
             subnetId |-> Ref(KeyOf(publicSubnets[1]), "id") ],
           {KeyOf(elasticIps[i + 1]), KeyOf(publicSubnets[1]), InternetGatewayKey})

\* new NatGateway(this, `nat_gateway_${i + 1}`, ...)
NatGateway(i, elasticIps, publicSubnets) ==
  Resource("network", "network/nat_gateways", "aws_nat_gateway", "nat_gateway_",
           NumberToString(i + 1),
           [ allocationId |-> Ref(KeyOf(elasticIps[i + 1]), "id"),
             subnetId |-> Ref(KeyOf(publicSubnets[i + 1]), "id") ],
           {KeyOf(elasticIps[i + 1]), KeyOf(publicSubnets[i + 1]), InternetGatewayKey})

\* NatGatewaysConstruct.constructor
NatGatewaysConstruct ==
  /\ pc = "network.nat_gateways"
  /\ LET elasticIps == Select(tree, "aws_eip", "elastic_ip_")
         publicSubnets == Select(tree, "aws_subnet", "public_subnet_")
     IN IF Len(elasticIps) < props.numberOfAvailabilityZonesUsed
        THEN /\ Throw("The number of availability zones used must match the number of elastic IPs")
             /\ UNCHANGED tree
        ELSE IF Len(publicSubnets) < props.numberOfAvailabilityZonesUsed
        THEN /\ Throw("The number of availability zones used must match the number of public subnets")
             /\ UNCHANGED tree
        ELSE /\ tree' = tree
                  \o [k \in 1..LoopCount(props.numberOfAvailabilityZonesUsed) |->
                        NatGateway(k - 1, elasticIps, publicSubnets)]
             /\ pc' = After(pc)
             /\ NoThrow
  /\ UNCHANGED << input, props, sslValidationDnsRecords, unitLog, outputs, emitted, run, previous, terraform >>


\* new RouteTable(this, "public_subnets_route_table", ...)
PublicSubnetsRouteTable ==
  Resource("network", "network/route_tables", "aws_route_table",
           "public_subnets_route_table", <<>>,
           [ route |-> << [ cidrBlock |-> Str("0.0.0.0/0"),
                            gatewayId |-> Ref(InternetGatewayKey, "id") ] >>,
             vpcId |-> Ref(VpcKey, "id") ],
           {InternetGatewayKey, VpcKey})

\* new RouteTable(this, `private_subnets_route_table_${index + 1}`, ...)
PrivateSubnetsRouteTable(index, natGateways) ==
  Resource("network", "network/route_tables", "aws_route_table",
           "private_subnets_route_table_", NumberToString(index + 1),
           [ route |-> << [ cidrBlock |-> Str("0.0.0.0/0"),
                            natGatewayId |-> Ref(KeyOf(natGateways[index + 1]), "id") ] >>,
             vpcId |-> Ref(VpcKey, "id") ],
           {KeyOf(natGateways[index + 1]), VpcKey})

\* new RouteTableAssociation(this, `<stem>${index + 1}`, ...)
RouteTableAssociation(base, index, routeTable, subnet) ==
  Resource("network", "network/route_tables", "aws_route_table_association",
           base, NumberToString(index + 1),
           [ routeTableId |-> Ref(KeyOf(routeTable), "id"),
             subnetId |-> Ref(KeyOf(subnet), "id") ],
           {KeyOf(routeTable), KeyOf(subnet)})

\* The natGateways list RouteTablesConstruct receives: NetworkConstruct
\* passes natGateways.self whole; a direct caller may pass fewer.
NatGatewaysPassed(t, withheld) ==
  LET natGateways == Select(t, "aws_nat_gateway", "nat_gateway_")
  IN SubSeq(natGateways, 1, Len(natGateways) - LoopCount(withheld))

\* props.privateSubnets of RouteTablesConstruct
PrivateSubnetsPassed(t, withheld) ==
  LET privateSubnets == Select(t, "aws_subnet", "private_subnet_")
  IN SubSeq(privateSubnets, 1, Len(privateSubnets) - LoopCount(withheld))

\* The test written as natGateways.length < privateSubnets.length
TooFewNatGateways(natGateways, privateSubnets) ==
  Len(natGateways) < Len(privateSubnets)

\* props.natGateways.length !== props.privateSubnets.length
NatGatewaysMismatch(natGateways, privateSubnets) ==
  Len(natGateways) # Len(privateSubnets)

\* RouteTablesConstruct.constructor
RouteTablesConstruct ==
  /\ pc = "network.route_tables"
  /\ LET natGateways == NatGatewaysPassed(tree, props.natGatewaysWithheld)
         privateSubnets == PrivateSubnetsPassed(tree, props.privateSubnetsWithheld)
         publicSubnets == Select(tree, "aws_subnet", "public_subnet_")
         publicSubnetsRouteTable == overrideNullValuesForRouteTable(PublicSubnetsRouteTable)
         privateSubnetsRouteTables ==
           [k \in 1..Len(privateSubnets) |->
              overrideNullValuesForRouteTable(PrivateSubnetsRouteTable(k - 1, natGateways))]
     IN IF NatGatewaysMismatch(natGateways, privateSubnets)
        THEN /\ Throw("The number of NAT gateways must match the number of private subnets")
             /\ UNCHANGED tree
        ELSE /\ tree' = tree
                  \o << publicSubnetsRouteTable >>
                  \o [k \in 1..Len(publicSubnets) |->
                        RouteTableAssociation("public_subnets_route_table_association_",
                                              k - 1, publicSubnetsRouteTable, publicSubnets[k])]
                  \o privateSubnetsRouteTables
                  \o [k \in 1..Len(privateSubnets) |->
                        RouteTableAssociation("private_subnets_route_table_association_",
                                              k - 1, privateSubnetsRouteTables[k], privateSubnets[k])]
             /\ pc' = After(pc)
             /\ NoThrow
  /\ UNCHANGED << input, props, sslValidationDnsRecords, unitLog, outputs, emitted, run, previous, terraform >>

AcmCertificateKey == Key("aws_acm_certificate", "acm_certificate", <<>>)

\* list[0]: undefined when the list is empty
First(list) == IF Len(list) > 0 THEN list[1] ELSE <<"undefined">>

\* new AcmCertificate(this, "acm_certificate", ...)
AcmCertificate(domainNames) ==
  Resource("network", "network/ssl", "aws_acm_certificate", "acm_certificate", <<>>,
           [ domainName |-> First(domainNames),
             subjectAlternativeNames |-> SubSeq(domainNames, 2, Len(domainNames)),
             validationMethod |-> "DNS" ],
           {})

\* The records indexed from one
ValidationDnsCountedFromOne(domainNames) ==
  [k \in 1..Len(domainNames) |->
     [ certificate |-> AcmCertificateKey, option |-> k ]]

\* props.domainNames.map((_, index) => ({name, type, value})): the record
\* built for one index reads domain_validation_options[index] of the certificate
ValidationDns(domainNames) ==
  [k \in 1..Len(domainNames) |->
     [ certificate |-> AcmCertificateKey, option |-> k - 1 ]]

\* The length test left out
NoDomainNamesUnchecked(domainNames) == FALSE

\* props.domainNames.length === 0
NoDomainNames(domainNames) == Len(domainNames) = 0

\* SslConstruct.constructor
SslConstruct ==
  /\ pc = "network.ssl"
  /\ IF NoDomainNames(props.domainNames)
     THEN /\ Throw("You must specify at least one domain name")
          /\ UNCHANGED << tree, sslValidationDnsRecords >>
     ELSE /\ tree' = Append(tree, AcmCertificate(props.domainNames))
          /\ sslValidationDnsRecords' = ValidationDns(props.domainNames)
          /\ pc' = After(pc)
          /\ NoThrow
  /\ UNCHANGED << input, props, unitLog, outputs, emitted, run, previous, terraform >>

LbSecurityGroupKey ==
  Key("aws_security_group", "application_load_balancer_security_group", <<>>)

LbEgressRuleKey ==
  Key("aws_security_group_rule", "application_load_balancer_security_group_egress_rule", <<>>)

LbLogsBucketKey == Key("aws_s3_bucket", "application_load_balancer_logs_bucket", <<>>)

LbKey == Key("aws_lb", "application_load_balancer", <<>>)

LbTargetGroupKey == Key("aws_lb_target_group", "application_load_balancer_target_group", <<>>)

LbHttpsListenerKey == Key("aws_lb_listener", "application_load_balancer_https_listener", <<>>)

LbScope == "network/application_load_balancer"

\* new SecurityGroupRule(this, "..._http_ingress_rule" | "..._https_ingress_rule", ...)
LbIngressRule(base, port) ==
  Resource("network", LbScope, "aws_security_group_rule", base, <<>>,
           [ type |-> Str("ingress"), fromPort |-> port, toPort |-> port,
             protocol |-> Str("tcp"), cidrBlocks |-> List(<<"0.0.0.0/0">>),
             securityGroupId |-> Ref(LbSecurityGroupKey, "id") ],
           {LbSecurityGroupKey})

\* new SecurityGroupRule(this, "application_load_balancer_security_group_egress_rule", ...)
LbEgressRule ==
  Resource("network", LbScope, "aws_security_group_rule",
           "application_load_balancer_security_group_egress_rule", <<>>,
           [ type |-> Str("egress"), fromPort |-> 0, toPort |-> 0,
             protocol |-> Str("-1"),
             securityGroupId |-> Ref(LbSecurityGroupKey, "id"),
             sourceSecurityGroupId |-> Str("") ],
           {LbSecurityGroupKey})

\* The port-80 listener that never waits for the port-443 listener
LbHttpListenerWithoutHttpsListener(enableHttps) ==
  Resource("network", LbScope, "aws_lb_listener", "application_load_balancer_http_listener", <<>>,
           [ defaultAction |->
               << IF enableHttps
                  THEN [ type |-> "redirect", port |-> "443", protocol |-> "HTTPS",
                         statusCode |-> "HTTP_301", targetGroupArn |-> Null ]
                  ELSE [ type |-> "forward", port |-> "", protocol |-> "",
                         statusCode |-> "", targetGroupArn |-> Ref(LbTargetGroupKey, "arn") ] >>,
             loadBalancerArn |-> Ref(LbKey, "arn"),
             port |-> 80,
             protocol |-> "HTTP",
             dependsOn |-> <<LbTargetGroupKey>> ],
           {LbTargetGroupKey, LbKey})

\* new LbListener(this, "application_load_balancer_http_listener", ...)
LbHttpListener(enableHttps) ==
  Resource("network", LbScope, "aws_lb_listener", "application_load_balancer_http_listener", <<>>,
           [ defaultAction |->
               << IF enableHttps
                  THEN [ type |-> "redirect", port |-> "443", protocol |-> "HTTPS",
                         statusCode |-> "HTTP_301", targetGroupArn |-> Null ]
                  ELSE [ type |-> "forward", port |-> "", protocol |-> "",
                         statusCode |-> "", targetGroupArn |-> Ref(LbTargetGroupKey, "arn") ] >>,
             loadBalancerArn |-> Ref(LbKey, "arn"),
             port |-> 80,
             protocol |-> "HTTP",
             dependsOn |-> IF enableHttps
                           THEN <<LbTargetGroupKey, LbHttpsListenerKey>>
                           ELSE <<LbTargetGroupKey>> ],
           IF enableHttps
           THEN {LbTargetGroupKey, LbKey, LbHttpsListenerKey}
           ELSE {LbTargetGroupKey, LbKey})

\* ApplicationLoadBalancerConstruct.constructor, and the assignments that
\* end NetworkConstruct.constructor
ApplicationLoadBalancerConstruct ==
  /\ pc = "network.application_load_balancer"
  /\ LET publicSubnets == Select(tree, "aws_subnet", "public_subnet_")
         publicSubnetKeys == {KeyOf(publicSubnets[k]) : k \in 1..Len(publicSubnets)}
     IN tree' = tree \o
       << Resource("network", LbScope, "aws_security_group",
                   "application_load_balancer_security_group", <<>>,
                   [ description |-> Str("Allow inbound HTTP/HTTPS traffic to application load balancer"),
                     vpcId |-> Ref(VpcKey, "id") ],
                   {VpcKey}),
          overrideNullValuesForSecurityGroupRule(
            LbIngressRule("application_load_balancer_security_group_http_ingress_rule", 80)),
          overrideNullValuesForSecurityGroupRule(
            LbIngressRule("application_load_balancer_security_group_https_ingress_rule", 443)),
          overrideNullValuesForSecurityGroupRule(LbEgressRule),
          Resource("network", LbScope, "aws_s3_bucket",
                   "application_load_balancer_logs_bucket", <<>>,
                   [acl |-> "private", forceDestroy |-> TRUE], {}),
          DataSource("network", LbScope, "data.aws_iam_policy_document",
                     "application_load_balancer_logs_bucket_policy_document", <<>>,
                     [version |-> "2012-10-17"], {LbLogsBucketKey, CurrentAccountKey}),
          Resource("network", LbScope, "aws_s3_bucket_policy",
                   "application_load_balancer_logs_bucket_policy", <<>>,
                   [bucket |-> Ref(LbLogsBucketKey, "bucket")],
                   { LbLogsBucketKey,
                     Key("data.aws_iam_policy_document",
                         "application_load_balancer_logs_bucket_policy_document", <<>>) }),
          Resource("network", LbScope, "aws_lb", "application_load_balancer", <<>>,
                   [ internal |-> FALSE, loadBalancerType |-> "application",
                     subnets |-> [k \in 1..Len(publicSubnets) |-> Ref(KeyOf(publicSubnets[k]), "id")] ],
                   {LbSecurityGroupKey, LbLogsBucketKey} \cup publicSubnetKeys),
          Resource("network", LbScope, "aws_lb_target_group",
                   "application_load_balancer_target_group", <<>>,
                   [port |-> 80, protocol |-> "HTTP", targetType |-> "ip"],
                   {VpcKey, LbKey}),
          Resource("network", LbScope, "aws_lb_listener",
                   "application_load_balancer_https_listener", <<>>,
                   [ defaultAction |->
                       << [ type |-> "forward", port |-> "", protocol |-> "",
                            statusCode |-> "", targetGroupArn |-> Ref(LbTargetGroupKey, "arn") ] >>,
                     loadBalancerArn |-> Ref(LbKey, "arn"),
                     port |-> 443,
                     protocol |-> "HTTPS",
                     dependsOn |-> <<LbTargetGroupKey, AcmCertificateKey>> ],
                   {LbTargetGroupKey, LbKey, AcmCertificateKey}),
          LbHttpListener(props.enableHttps) >>
  /\ unitLog' = Append(unitLog, End("network"))
  /\ pc' = After(pc)
  /\ NoThrow
  /\ UNCHANGED << input, props, sslValidationDnsRecords, outputs, emitted, run, previous, terraform >>


(***************************************************************************)
(* Computing unit (lib/constructs/computing)                               *)
(***************************************************************************)
ContainersLogsGroupKey == Key("aws_cloudwatch_log_group", "containers_logs_group", <<>>)

ClusterKey == Key("aws_ecs_cluster", "fargate_cluster", <<>>)

EcrRepositoryKey == Key("aws_ecr_repository", "ecr_repository", <<>>)

TasksSecurityGroupKey == Key("aws_security_group", "fargate_tasks_security_group", <<>>)

TasksExecutionRoleKey == Key("aws_iam_role", "fargate_tasks_execution_role", <<>>)

MainTaskDefinitionKey == Key("aws_ecs_task_definition", "main_fargate_tasks_definition", <<>>)

PreDeployTaskDefinitionKey ==
  Key("aws_ecs_task_definition", "pre_deploy_fargate_tasks_definition", <<>>)

CurrentTaskDefinitionKey ==
  Key("data.aws_ecs_task_definition", "current_main_fargate_tasks_definition", <<>>)

ServiceKey == Key("aws_ecs_service", "fargate_service", <<>>)

AutoScalingTargetKey == Key("aws_appautoscaling_target", "fargate_auto_scaling_target", <<>>)

\* The units whose outputs main.ts passes to ComputingConstruct
ComputingConsumes == {"network"}

\* new CloudwatchLogGroup(this, "containers_logs_group", ...); the first
\* statement of ComputingConstruct.constructor
ContainersLogsGroup ==
  /\ pc = "computing.containers_logs_group"
  /\ unitLog' = Append(unitLog, Begin("computing", ComputingConsumes))
  /\ tree' = Append(tree,
       Resource("computing", "computing", "aws_cloudwatch_log_group",
                "containers_logs_group", <<>>, [name |-> "fargate_containers"], {}))
  /\ pc' = After(pc)
  /\ NoThrow
  /\ UNCHANGED << input, props, sslValidationDnsRecords, outputs, emitted, run, previous, terraform >>

\* Construct id of the parameter of one variable
SsmParameterId(category, environmentVariableName) ==
  [ base |-> IF category = "application"
             THEN "ssm_parameter_application_"
             ELSE "ssm_parameter_builds_",
    suffix |-> ToLowerCase(environmentVariableName) ]

\* props.environmentVariables[name], props.buildsEnvironmentVariables[name]:
\* the value the environment gives the variable
ValueOfVariable(category, environmentVariableName) ==
  [category |-> category, variable |-> environmentVariableName]

\* new SsmParameter(this, `ssm_parameter_<category>_${name.toLowerCase()}`, ...)
SsmParameter(category, environmentVariableName) ==
  Resource("computing", "computing/environment_variables", "aws_ssm_parameter",
           SsmParameterId(category, environmentVariableName).base,
           SsmParameterId(category, environmentVariableName).suffix,
           [ path |-> IF category = "application" THEN "fargate-tasks-env" ELSE "builds-env",
             name |-> environmentVariableName,
             type |-> "SecureString",
             value |-> ValueOfVariable(category, environmentVariableName),
             tags |-> [name |-> environmentVariableName] ],
           {})

\* Object.keys(variables).forEach(name => list.push(new SsmParameter(...))),
\* from the k-th name: the loop stops at the first id the scope already holds
RECURSIVE PushSsmParameters(_, _, _, _)
PushSsmParameters(t, category, names, k) ==
  IF k > Len(names) THEN [tree |-> t, thrown |-> FALSE]
  ELSE LET parameter == SsmParameter(category, names[k])
       IN IF HasChild(t, parameter.scope, parameter.id)
          THEN [tree |-> t, thrown |-> TRUE]
          ELSE PushSsmParameters(Append(t, parameter), category, names, k + 1)

\* EnvironmentVariablesConstruct.constructor
EnvironmentVariablesConstruct ==
  /\ pc = "computing.environment_variables"
  /\ LET application == PushSsmParameters(tree, "application", props.environmentVariables, 1)
         builds == PushSsmParameters(application.tree, "builds", props.buildsEnvironmentVariables, 1)
     IN IF application.thrown
        THEN /\ tree' = application.tree
             /\ Throw("There is already a Construct with name")
        ELSE IF builds.thrown
        THEN /\ tree' = builds.tree
             /\ Throw("There is already a Construct with name")
        ELSE /\ tree' = builds.tree
             /\ pc' = After(pc)
             /\ NoThrow
  /\ UNCHANGED << input, props, sslValidationDnsRecords, unitLog, outputs, emitted, run, previous, terraform >>

\* ClusterConstruct.constructor
ClusterConstruct ==
  /\ pc = "computing.cluster"
  /\ tree' = Append(tree,
       Resource("computing", "computing/cluster", "aws_ecs_cluster", "fargate_cluster",
                <<>>, [name |-> "fargate_cluster"], {}))
  /\ pc' = After(pc)
  /\ NoThrow
  /\ UNCHANGED << input, props, sslValidationDnsRecords, unitLog, outputs, emitted, run, previous, terraform >>

\* RepositoryConstruct.constructor
RepositoryConstruct ==
  /\ pc = "computing.repository"
  /\ tree' = Append(tree,
       Resource("computing", "computing/repository", "aws_ecr_repository", "ecr_repository",
                <<>>, [name |-> "main"], {}))
  /\ pc' = After(pc)
  /\ NoThrow
  /\ UNCHANGED << input, props, sslValidationDnsRecords, unitLog, outputs, emitted, run, previous, terraform >>

\* environmentVariablesAsTaskSecrets
TaskSecrets(applicationEnvironmentVariables) ==
  [k \in 1..Len(applicationEnvironmentVariables) |->
     [ name |-> applicationEnvironmentVariables[k].cfg.tags.name,
       valueFrom |-> Ref(KeyOf(applicationEnvironmentVariables[k]), "arn") ]]

\* The statements with parameter reads granted on every path
TasksExecutionRolePolicyStatementsAnyPath ==
  << [ effect |-> "Allow",
       actions |-> {"ecr:GetAuthorizationToken"},
       resources |-> {<<"*">>} ],
     [ effect |-> "Allow",
       actions |-> {"ecr:BatchCheckLayerAvailability", "ecr:GetDownloadUrlForLayer",
                    "ecr:BatchGetImage"},
       resources |-> {EcrRepositoryKey \o <<"arn">>} ],
     [ effect |-> "Allow",
       actions |-> {"logs:CreateLogStream", "logs:PutLogEvents"},
       resources |-> {ContainersLogsGroupKey \o <<"arn">>,
                      ContainersLogsGroupKey \o <<"arn", ":*">>} ],
     [ effect |-> "Allow",
       actions |-> {"ssm:GetParameters"},
       resources |-> {<<"parameter", "*">>} ] >>

\* Statements of fargate_tasks_execution_role_policy_document
TasksExecutionRolePolicyStatements ==
  << [ effect |-> "Allow",
       actions |-> {"ecr:GetAuthorizationToken"},
       resources |-> {<<"*">>} ],
     [ effect |-> "Allow",
       actions |-> {"ecr:BatchCheckLayerAvailability", "ecr:GetDownloadUrlForLayer",
                    "ecr:BatchGetImage"},
       resources |-> {EcrRepositoryKey \o <<"arn">>} ],
     [ effect |-> "Allow",
       actions |-> {"logs:CreateLogStream", "logs:PutLogEvents"},
       resources |-> {ContainersLogsGroupKey \o <<"arn">>,
                      ContainersLogsGroupKey \o <<"arn", ":*">>} ],
     [ effect |-> "Allow",
       actions |-> {"ssm:GetParameters"},
       resources |-> {<<"parameter", "fargate-tasks-env", "*">>} ] >>

\* new SecurityGroup(this, "fargate_tasks_security_group", ...)
TasksSecurityGroup ==
  Resource("computing", "computing/task", "aws_security_group",
           "fargate_tasks_security_group", <<>>,
           [ description |-> Str("Allow inbound access from the application load balancer only"),
             egress |-> << [ fromPort |-> 0, toPort |-> 0, protocol |-> Str("-1"),
                             cidrBlocks |-> List(<<"0.0.0.0/0">>) ] >>,
             ingress |-> << [ fromPort |-> 0, toPort |-> 0, protocol |-> Str("-1"),
                              securityGroups |-> [t |-> "list", v |-> LbSecurityGroupKey \o <<"id">>] ] >>,
             vpcId |-> Ref(VpcKey, "id") ],
           {LbSecurityGroupKey, VpcKey})

\* The task definition that also passes every variable as a plain value
TaskDefinitionWithPlainValues(base, image, command, secrets) ==
  Resource("computing", "computing/task", "aws_ecs_task_definition", base, <<>>,
           [ containerDefinitions |->
               << [ image |-> image, command |-> command, secrets |-> secrets,
                    environment |->
                      [k \in 1..Len(secrets) |->
                         [ name |-> secrets[k].name,
                           value |-> ValueOfVariable("application", secrets[k].name) ]],
                    essential |-> TRUE ] >>,
             executionRoleArn |-> Ref(TasksExecutionRoleKey, "arn"),
             networkMode |-> "awsvpc" ],
           {TasksExecutionRoleKey, EcrRepositoryKey, ContainersLogsGroupKey, CurrentRegionKey}
             \cup {SubSeq(secrets[k].valueFrom.v, 1, Len(secrets[k].valueFrom.v) - 1)
                   : k \in 1..Len(secrets)})

\* new EcsTaskDefinition(this, <id>, ...)
TaskDefinition(base, image, command, secrets) ==
  Resource("computing", "computing/task", "aws_ecs_task_definition", base, <<>>,
           [ containerDefinitions |->
               << [ image |-> image, command |-> command, secrets |-> secrets,
                    environment |-> <<>>, essential |-> TRUE ] >>,
             executionRoleArn |-> Ref(TasksExecutionRoleKey, "arn"),
             networkMode |-> "awsvpc" ],
           {TasksExecutionRoleKey, EcrRepositoryKey, ContainersLogsGroupKey, CurrentRegionKey}
             \cup {SubSeq(secrets[k].valueFrom.v, 1, Len(secrets[k].valueFrom.v) - 1)
                   : k \in 1..Len(secrets)})

\* TasksConstruct.constructor
TasksConstruct ==
  /\ pc = "computing.task"
  /\ LET secrets == TaskSecrets(Select(tree, "aws_ssm_parameter", "ssm_parameter_application_"))
     IN tree' = tree \o
       << DataSource("computing", "computing/task", "data.aws_iam_policy_document",
                     "fargate_tasks_assume_role_policy", <<>>,
                     [ statement |-> << [ effect |-> "Allow",
                                          principals |-> {<<"Service", "ecs-tasks.amazonaws.com">>},
                                          actions |-> {"sts:AssumeRole"} ] >> ],
                     {}),
          Resource("computing", "computing/task", "aws_iam_role",
                   "fargate_tasks_execution_role", <<>>,
                   [ assumeRolePolicy |-> "fargate_tasks_assume_role_policy",
                     forceDetachPolicies |-> TRUE ],
                   {Key("data.aws_iam_policy_document", "fargate_tasks_assume_role_policy", <<>>)}),
          DataSource("computing", "computing/task", "data.aws_iam_policy_document",
                     "fargate_tasks_execution_role_policy_document", <<>>,
                     [statement |-> TasksExecutionRolePolicyStatements],
                     {EcrRepositoryKey, ContainersLogsGroupKey, CurrentRegionKey, CurrentAccountKey}),
          Resource("computing", "computing/task", "aws_iam_role_policy",
                   "fargate_tasks_execution_role_policy", <<>>,
                   [ policy |-> "fargate_tasks_execution_role_policy_document",
                     role |-> Ref(TasksExecutionRoleKey, "id") ],
                   { Key("data.aws_iam_policy_document",
                         "fargate_tasks_execution_role_policy_document", <<>>),
                     TasksExecutionRoleKey }),
          overrideNullValuesForSecurityGroup(TasksSecurityGroup),
          TaskDefinition("main_fargate_tasks_definition", "repositoryUrl", "", secrets),
          TaskDefinition("pre_deploy_fargate_tasks_definition", "repositoryUrl:latest",
                         "preDeployCommand", secrets),
          DataSource("computing", "computing/task", "data.aws_ecs_task_definition",
                     "current_main_fargate_tasks_definition", <<>>,
                     [taskDefinition |-> Ref(MainTaskDefinitionKey, "family")],
                     {MainTaskDefinitionKey}) >>
  /\ pc' = After(pc)
  /\ NoThrow
  /\ UNCHANGED << input, props, sslValidationDnsRecords, unitLog, outputs, emitted, run, previous, terraform >>

\* The test written as numberOfRunningTasks < 0
TooFewTasksOffByOne(numberOfRunningTasks) == numberOfRunningTasks < 0

\* numberOfRunningTasks < 1
TooFewTasks(numberOfRunningTasks) == numberOfRunningTasks < 1

\* The auto-scaling construct built whatever the flag
AutoScalingAlways(enableAutoScaling) == TRUE

\* if (props.enableAutoScaling)
AutoScalingRequested(enableAutoScaling) == enableAutoScaling

\* The service without lifecycle.ignoreChanges
EcsServiceOverwritingDesiredCount(minimumNumberOfRunningTasks, containerListenPort, privateSubnets) ==
  Resource("computing", "computing/service", "aws_ecs_service", "fargate_service", <<>>,
           [ desiredCount |-> minimumNumberOfRunningTasks,
             healthCheckGracePeriodSeconds |-> 240,
             deploymentMaximumPercent |-> 200,
             deploymentMinimumHealthyPercent |-> 100,
             launchType |-> "FARGATE",
             containerPort |-> containerListenPort,
             subnets |-> [k \in 1..Len(privateSubnets) |-> Ref(KeyOf(privateSubnets[k]), "id")],
             ignoreChanges |-> <<>>,
             dependsOn |-> <<LbTargetGroupKey, MainTaskDefinitionKey>> ],
           { ClusterKey, LbTargetGroupKey, TasksSecurityGroupKey, MainTaskDefinitionKey,
             CurrentTaskDefinitionKey }
             \cup {KeyOf(privateSubnets[k]) : k \in 1..Len(privateSubnets)})

\* new EcsService(this, "fargate_service", ...)
EcsService(minimumNumberOfRunningTasks, containerListenPort, privateSubnets) ==
  Resource("computing", "computing/service", "aws_ecs_service", "fargate_service", <<>>,
           [ desiredCount |-> minimumNumberOfRunningTasks,
             healthCheckGracePeriodSeconds |-> 240,
             deploymentMaximumPercent |-> 200,
             deploymentMinimumHealthyPercent |-> 100,
             launchType |-> "FARGATE",
             containerPort |-> containerListenPort,
             subnets |-> [k \in 1..Len(privateSubnets) |-> Ref(KeyOf(privateSubnets[k]), "id")],
             ignoreChanges |-> <<"desired_count">>,
             dependsOn |-> <<LbTargetGroupKey, MainTaskDefinitionKey>> ],
           { ClusterKey, LbTargetGroupKey, TasksSecurityGroupKey, MainTaskDefinitionKey,
             CurrentTaskDefinitionKey }
             \cup {KeyOf(privateSubnets[k]) : k \in 1..Len(privateSubnets)})

\* ServiceConstruct.constructor, and the test of props.enableAutoScaling
\* that follows it in ComputingConstruct.constructor
ServiceConstruct ==
  /\ pc = "computing.service"
  /\ IF TooFewTasks(props.minimumNumberOfRunningFargateTasks)
     THEN /\ Throw("Your Fargate cluster must run at least one task")
          /\ UNCHANGED << tree, unitLog >>
     ELSE /\ tree' = Append(tree,
               EcsService(props.minimumNumberOfRunningFargateTasks, props.containerListenPort,
                          Select(tree, "aws_subnet", "private_subnet_")))
          /\ IF AutoScalingRequested(props.enableAutoScaling)
             THEN /\ pc' = After(pc)
                  /\ UNCHANGED unitLog
             ELSE /\ pc' = After(After(pc))
                  /\ unitLog' = Append(unitLog, End("computing"))
          /\ NoThrow
  /\ UNCHANGED << input, props, sslValidationDnsRecords, outputs, emitted, run, previous, terraform >>

\* The lower test written as percent < 0
LimitOutOfRangeOffByOne(percent) == percent < 0 \/ percent > 100

\* percent < 1 || percent > 100
LimitOutOfRange(percent) == percent < 1 \/ percent > 100

\* new AppautoscalingPolicy(this, <id>, ...)
AppautoscalingPolicy(base, metric, targetValue) ==
  Resource("computing", "computing/auto_scaling", "aws_appautoscaling_policy", base, <<>>,
           [ policyType |-> "TargetTrackingScaling",
             predefinedMetricType |-> metric,
             scaleInCooldown |-> 300,
             scaleOutCooldown |-> 300,
             targetValue |-> targetValue,
             dependsOn |-> <<AutoScalingTargetKey>> ],
           {AutoScalingTargetKey})

\* AutoScalingConstruct.constructor
AutoScalingConstruct ==
  /\ pc = "computing.auto_scaling"
  /\ IF LimitOutOfRange(props.autoScalingMemoryLimitPercent)
     THEN /\ Throw("Memory limit must be comprised between 1 and 100")
          /\ UNCHANGED << tree, unitLog >>
     ELSE IF LimitOutOfRange(props.autoScalingCpuLimitPercent)
     THEN /\ Throw("CPU limit must be comprised between 1 and 100")
          /\ UNCHANGED << tree, unitLog >>
     ELSE IF \/ TooFewTasks(props.minimumNumberOfRunningFargateTasks)
             \/ TooFewTasks(props.maximumNumberOfRunningFargateTasks)
     THEN /\ Throw("Your Fargate cluster must run at least one task")
          /\ UNCHANGED << tree, unitLog >>
     ELSE /\ tree' = tree \o
               << Resource("computing", "computing/auto_scaling", "aws_appautoscaling_target",
                           "fargate_auto_scaling_target", <<>>,
                           [ maxCapacity |-> props.maximumNumberOfRunningFargateTasks,
                             minCapacity |-> props.minimumNumberOfRunningFargateTasks,
                             scalableDimension |-> "ecs:service:DesiredCount",
                             dependsOn |-> <<ClusterKey, ServiceKey>> ],
                           {ClusterKey, ServiceKey}),
                  AppautoscalingPolicy("fargate_auto_scaling_cpu_policy",
                                       "ECSServiceAverageCPUUtilization",
                                       props.autoScalingCpuLimitPercent),
                  AppautoscalingPolicy("fargate_auto_scaling_memory_policy",
                                       "ECSServiceAverageMemoryUtilization",
                                       props.autoScalingMemoryLimitPercent) >>
          /\ unitLog' = Append(unitLog, End("computing"))
          /\ pc' = After(pc)
          /\ NoThrow
  /\ UNCHANGED << input, props, sslValidationDnsRecords, outputs, emitted, run, previous, terraform >>


(***************************************************************************)
(* Root: the egress rule of the load balancer security group (main.ts)     *)
(***************************************************************************)
\* The position in the tree of the descriptor with a given key
IndexOfKey(t, key) == CHOOSE i \in 1..Len(t) : KeyOf(t[i]) = key

\* The root going on without the override
PatchEgressRuleLeftOut ==
  /\ pc = "patch_egress_rule"
  /\ pc' = After(pc)
  /\ NoThrow
  /\ UNCHANGED << input, props, tree, sslValidationDnsRecords, unitLog, outputs, emitted, run, previous, terraform >>

\* The root overriding a property of the computing unit's security group as well
PatchEgressRuleAndTasksSecurityGroup ==
  /\ pc = "patch_egress_rule"
  /\ tree' = [tree EXCEPT ![IndexOfKey(tree, LbEgressRuleKey)] =
                addOverride(@, <<"source_security_group_id">>,
                            Ref(TasksSecurityGroupKey, "id")),
                          ![IndexOfKey(tree, TasksSecurityGroupKey)] =
                addOverride(@, <<"description">>, Null)]
  /\ pc' = After(pc)
  /\ NoThrow
  /\ UNCHANGED << input, props, sslValidationDnsRecords, unitLog, outputs, emitted, run, previous, terraform >>

\* network.applicationLoadBalancerSecurityGroupEgressRule.addOverride(
\*   "source_security_group_id", Token.asString(computing.fargateTasksSecurityGroup.id))
PatchEgressRule ==
  /\ pc = "patch_egress_rule"
  /\ tree' = [tree EXCEPT ![IndexOfKey(tree, LbEgressRuleKey)] =
                addOverride(@, <<"source_security_group_id">>,
                            Ref(TasksSecurityGroupKey, "id"))]
  /\ pc' = After(pc)
  /\ NoThrow
  /\ UNCHANGED << input, props, sslValidationDnsRecords, unitLog, outputs, emitted, run, previous, terraform >>

(***************************************************************************)
(* Continuous-deployment unit (lib/constructs/continuousDeployment)        *)
(***************************************************************************)
PipelineBucketKey == Key("aws_s3_bucket", "pipeline_s3_bucket", <<>>)

BuildsSecurityGroupKey == Key("aws_security_group", "codebuild_security_group", <<>>)

BuildsRoleKey == Key("aws_iam_role", "codebuild_role", <<>>)

PipelineRoleKey == Key("aws_iam_role", "codepipeline_role", <<>>)

PipelineKey == Key("aws_codepipeline", "pipeline", <<>>)

WebhookKey == Key("aws_codepipeline_webhook", "codepipeline_webhook", <<>>)

DeregisterWebhookKey == Key("null_resource", "deregister_webhook", <<>>)

RegisterWebhookKey == Key("null_resource", "register_webhook", <<>>)

BuildsScope == "continuous_deployment/builds"

PipelineScope == "continuous_deployment/pipeline"

\* The units whose outputs main.ts passes to ContinuousDeploymentConstruct
ContinuousDeploymentConsumes == {"network", "computing"}

\* new SecurityGroup(this, "codebuild_security_group", ...)
BuildsSecurityGroup ==
  Resource("continuous_deployment", BuildsScope, "aws_security_group",
           "codebuild_security_group", <<>>,
           [ description |-> Str("Allow outbound access to CodeBuild from our vpc"),
             egress |-> << [ cidrBlocks |-> List(<<"0.0.0.0/0">>), fromPort |-> 0,
                             protocol |-> Str("-1"), toPort |-> 0 ] >>,
             vpcId |-> Ref(VpcKey, "id") ],
           {VpcKey})

\* The variables of the build projects carrying the parameters' values
BuildEnvironmentVariablesInPlain(buildsEnvironmentVariables) ==
  [k \in 1..Len(buildsEnvironmentVariables) |->
     [ name |-> buildsEnvironmentVariables[k].cfg.tags.name,
       type |-> "PLAINTEXT",
       value |-> buildsEnvironmentVariables[k].cfg.value ]]

\* buildEnvironmentVariables
BuildEnvironmentVariables(buildsEnvironmentVariables) ==
  [k \in 1..Len(buildsEnvironmentVariables) |->
     [ name |-> buildsEnvironmentVariables[k].cfg.tags.name,
       type |-> "PARAMETER_STORE",
       value |-> Ref(KeyOf(buildsEnvironmentVariables[k]), "name") ]]

\* new CodebuildProject(this, <id>, ...)
CodebuildProject(base, buildspec, environmentVariable, privateSubnets) ==
  Resource("continuous_deployment", BuildsScope, "aws_codebuild_project", base, <<>>,
           [ buildspec |-> buildspec,
             environmentVariable |-> environmentVariable,
             serviceRole |-> Ref(BuildsRoleKey, "arn"),
             dependsOn |-> <<BuildsRoleKey>> ],
           {BuildsRoleKey, VpcKey, BuildsSecurityGroupKey}
             \cup {KeyOf(privateSubnets[k]) : k \in 1..Len(privateSubnets)})

\* The statement on the parameters granting reads under every path
BuildsRoleParametersStatementAnyPath ==
  [ effect |-> "Allow",
    actions |-> {"ssm:GetParameters"},
    resources |-> {<<"parameter", "*">>},
    condition |-> <<>> ]

\* The statement of codebuild_role_policy_document on the parameters:
\* parameter/${props.resourceNamesPrefix}/builds-env/*
BuildsRoleParametersStatement ==
  [ effect |-> "Allow",
    actions |-> {"ssm:GetParameters"},
    resources |-> {<<"parameter", "builds-env", "*">>},
    condition |-> <<>> ]

\* Statements of codebuild_role_policy_document
BuildsRolePolicyStatements(privateSubnets) ==
  << [ effect |-> "Allow",
       actions |-> {"logs:CreateLogGroup", "logs:CreateLogStream", "logs:PutLogEvents",
                    "logs:GetLogEvents"},
       resources |-> {<<"log-group", "codebuild_logs_group">>,
                      <<"log-group", "codebuild_logs_group", ":*">>,
                      ContainersLogsGroupKey \o <<"arn">>,
                      ContainersLogsGroupKey \o <<"arn", ":*">>},
       condition |-> <<>> ],
     [ effect |-> "Allow",
       actions |-> {"s3:GetObject", "s3:GetObjectVersion", "s3:PutObject",
                    "s3:GetBucketAcl", "s3:GetBucketLocation"},
       resources |-> {PipelineBucketKey \o <<"arn">>,
                      PipelineBucketKey \o <<"arn", "/", "*">>},
       condition |-> <<>> ],
     [ effect |-> "Allow",
       actions |-> {"ecr:GetDownloadUrlForLayer", "ecr:BatchGetImage",
                    "ecr:BatchCheckLayerAvailability", "ecr:InitiateLayerUpload",
                    "ecr:UploadLayerPart", "ecr:CompleteLayerUpload", "ecr:PutImage"},
       resources |-> {EcrRepositoryKey \o <<"arn">>},
       condition |-> <<>> ],
     [ effect |-> "Allow",
       actions |-> {"ecr:GetAuthorizationToken"},
       resources |-> {<<"*">>},
       condition |-> <<>> ],
     [ effect |-> "Allow",
       actions |-> {"ecs:DescribeTasks", "ecs:RunTask"},
       resources |-> {<<"*">>},
       condition |-> << [ test |-> "StringEquals", variable |-> "ecs:cluster",
                          values |-> <<ClusterKey \o <<"arn">>>> ] >> ],
     BuildsRoleParametersStatement,
     [ effect |-> "Allow",
       actions |-> {"iam:passRole"},
       resources |-> {<<"*">>},
       condition |-> << [ test |-> "StringEqualsIfExists", variable |-> "iam:PassedToService",
                          values |-> << <<"ecs-tasks.amazonaws.com">> >> ] >> ],
     [ effect |-> "Allow",
       actions |-> {"ec2:CreateNetworkInterface", "ec2:DescribeDhcpOptions",
                    "ec2:DescribeNetworkInterfaces", "ec2:DeleteNetworkInterface",
                    "ec2:DescribeSubnets", "ec2:DescribeSecurityGroups", "ec2:DescribeVpcs"},
       resources |-> {<<"*">>},
       condition |-> <<>> ],
     [ effect |-> "Allow",
       actions |-> {"ec2:CreateNetworkInterfacePermission"},
       resources |-> {<<"network-interface", "*">>},
       condition |-> << [ test |-> "StringEquals", variable |-> "ec2:Subnet",
                          values |-> [k \in 1..Len(privateSubnets) |->
                                        KeyOf(privateSubnets[k]) \o <<"arn">>] ],
                        [ test |-> "StringEquals", variable |-> "ec2:AuthorizedService",
                          values |-> << <<"codebuild.amazonaws.com">> >> ] >> ] >>

\* new S3Bucket(this, "pipeline_s3_bucket", ...), the first statement of
\* ContinuousDeploymentConstruct.constructor, and BuildsConstruct.constructor
BuildsConstruct ==
  /\ pc = "continuous_deployment.builds"
  /\ unitLog' = Append(unitLog, Begin("continuous_deployment", ContinuousDeploymentConsumes))
  /\ LET privateSubnets == Select(tree, "aws_subnet", "private_subnet_")
         buildEnvironmentVariables ==
           BuildEnvironmentVariables(Select(tree, "aws_ssm_parameter", "ssm_parameter_builds_"))
         containerName == Str("main")
         plain(name, value) == [name |-> name, type |-> "PLAINTEXT", value |-> value]
     IN tree' = tree \o
       << Resource("continuous_deployment", "continuous_deployment", "aws_s3_bucket",
                   "pipeline_s3_bucket", <<>>, [acl |-> "private", forceDestroy |-> TRUE], {}),
          overrideNullValuesForSecurityGroup(BuildsSecurityGroup),
          DataSource("continuous_deployment", BuildsScope, "data.aws_iam_policy_document",
                     "codebuild_assume_role_policy", <<>>, [version |-> "2012-10-17"], {}),
          Resource("continuous_deployment", BuildsScope, "aws_iam_role", "codebuild_role", <<>>,
                   [assumeRolePolicy |-> "codebuild_assume_role_policy"],
                   {Key("data.aws_iam_policy_document", "codebuild_assume_role_policy", <<>>)}),
          DataSource("continuous_deployment", BuildsScope, "data.aws_iam_policy_document",
                     "codebuild_role_policy_document", <<>>,
                     [ version |-> "2012-10-17",
                       statement |-> BuildsRolePolicyStatements(privateSubnets) ],
                     { PipelineBucketKey, EcrRepositoryKey, ClusterKey, ContainersLogsGroupKey,
                       CurrentRegionKey, CurrentAccountKey }),
          Resource("continuous_deployment", BuildsScope, "aws_iam_role_policy",
                   "codebuild_role_policy", <<>>,
                   [policy |-> "codebuild_role_policy_document"],
                   { Key("data.aws_iam_policy_document", "codebuild_role_policy_document", <<>>),
                     BuildsRoleKey }),
          CodebuildProject("codebuild_build_project", "buildspec.yml",
                           << plain("AWS_ECR_REPOSITORY_URI", Ref(EcrRepositoryKey, "repository_url")),
                              plain("CONTAINER_NAME", containerName) >>
                             \o buildEnvironmentVariables,
                           privateSubnets),
          CodebuildProject("codebuild_test_project", "testspec.yml",
                           buildEnvironmentVariables, privateSubnets),
          CodebuildProject("codebuild_pre_deploy_project", "pre-deployspec.yml",
                           << plain("WAITER_MAX_RETRIES", Str("6")),
                              plain("AWS_ECS_CLUSTER", Ref(ClusterKey, "name")),
                              plain("AWS_ECS_PRE_DEPLOY_TASK_DEF",
                                    Ref(PreDeployTaskDefinitionKey, "family")),
                              plain("AWS_ECS_PRE_DEPLOY_TASK_SUBNETS",
                                    [ t |-> "join",
                                      v |-> [k \in 1..Len(privateSubnets) |->
                                               KeyOf(privateSubnets[k]) \o <<"id">>] ]),
                              plain("AWS_ECS_PRE_DEPLOY_TASK_SECURITY_GROUPS",
                                    Ref(TasksSecurityGroupKey, "id")),
                              plain("AWS_ECS_PRE_DEPLOY_TASK_CONTAINER_NAME", containerName),
                              plain("AWS_ECS_PRE_DEPLOY_TASK_ASSIGN_PUBLIC_IP", Str("DISABLED")),
                              plain("AWS_ECS_PRE_DEPLOY_TASK_LOGS_GROUP_NAME",
                                    Ref(ContainersLogsGroupKey, "name")),
                              plain("AWS_ECS_PRE_DEPLOY_TASK_LOGS_STREAM_PREFIX",
                                    Str("resourceNamesPrefix/main")) >>
                             \o buildEnvironmentVariables,
                           privateSubnets) >>
  /\ pc' = After(pc)
  /\ NoThrow
  /\ UNCHANGED << input, props, sslValidationDnsRecords, outputs, emitted, run, previous, terraform >>

\* new Null.Resource(this, <id>, ...) followed by its addOverride calls
NullResource(base, command, when, dependsOn, references) ==
  LET created == Resource("continuous_deployment", PipelineScope, "null_resource", base, <<>>,
                          [dependsOn |-> dependsOn],
                          {dependsOn[k] : k \in 1..Len(dependsOn)} \cup references)
      withCommand == addOverride(created, <<"provisioner", "local-exec", "command">>, Str(command))
  IN IF when = "" THEN withCommand
     ELSE addOverride(withCommand, <<"provisioner", "local-exec", "when">>, Str(when))

\* One element of the stage list: a stage with its single action
PipelineStage(name, category, provider, inputArtifacts, outputArtifacts) ==
  [ name |-> name, category |-> category, provider |-> provider,
    inputArtifacts |-> inputArtifacts, outputArtifacts |-> outputArtifacts ]

\* The stage list with the Build stage ahead of the Test stage
PipelineStagesBuildFirst ==
  << PipelineStage("Source", "Source", "GitHub", <<>>, <<"source_output">>),
     PipelineStage("Build", "Build", "CodeBuild", <<"source_output">>, <<"build_output">>),
     PipelineStage("Test", "Test", "CodeBuild", <<"source_output">>, <<>>),
     PipelineStage("Pre-Deploy", "Test", "CodeBuild", <<"source_output">>, <<>>),
     PipelineStage("Deploy", "Deploy", "ECS", <<"build_output">>, <<>>) >>

\* stage: [...] of new Codepipeline(this, "pipeline", ...)
PipelineStages ==
  << PipelineStage("Source", "Source", "GitHub", <<>>, <<"source_output">>),
     PipelineStage("Test", "Test", "CodeBuild", <<"source_output">>, <<>>),
     PipelineStage("Build", "Build", "CodeBuild", <<"source_output">>, <<"build_output">>),
     PipelineStage("Pre-Deploy", "Test", "CodeBuild", <<"source_output">>, <<>>),
     PipelineStage("Deploy", "Deploy", "ECS", <<"build_output">>, <<>>) >>

\* pipeline.addOverride(`stage.${index}.action.0.configuration`, {...}): the
\* keys of the configuration object
StageConfiguration(pipeline, index, keys) ==
  addOverride(pipeline,
              <<"stage", NumberToString(index), "action", <<"0">>, "configuration">>,
              List(keys))

\* new Codepipeline(this, "pipeline", ...) and its five configuration overrides
Codepipeline ==
  LET BuildProject == Key("aws_codebuild_project", "codebuild_build_project", <<>>)
      TestProject == Key("aws_codebuild_project", "codebuild_test_project", <<>>)
      PreDeployProject == Key("aws_codebuild_project", "codebuild_pre_deploy_project", <<>>)
      created ==
        Resource("continuous_deployment", PipelineScope, "aws_codepipeline", "pipeline", <<>>,
                 [ stage |-> PipelineStages,
                   roleArn |-> Ref(PipelineRoleKey, "arn"),
                   dependsOn |-> << PipelineBucketKey, PipelineRoleKey, BuildProject,
                                    TestProject, PreDeployProject, ClusterKey, ServiceKey >> ],
                 { PipelineRoleKey, PipelineBucketKey, ClusterKey, ServiceKey,
                   BuildProject, TestProject, PreDeployProject })
      source == StageConfiguration(created, 0,
                  <<"Branch", "OAuthToken", "Owner", "PollForSourceChanges", "Repo">>)
      test == StageConfiguration(source, 1, <<"ProjectName">>)
      build == StageConfiguration(test, 2, <<"ProjectName">>)
      preDeploy == StageConfiguration(build, 3, <<"ProjectName">>)
  IN StageConfiguration(preDeploy, 4, <<"ClusterName", "ServiceName">>)

\* The start command made to wait for the webhook only
StartPipelineDependsOnWebhook == <<WebhookKey>>

\* dependsOn: [registerWebhook] of the start_pipeline resource
StartPipelineDependsOn == <<RegisterWebhookKey>>

\* The registration made to wait for the webhook only
RegisterWebhookDependsOnWebhook == <<WebhookKey>>

\* dependsOn: [deregisterWebhook] of the register_webhook resource
RegisterWebhookDependsOn == <<DeregisterWebhookKey>>

\* PipelineConstruct.constructor, and the assignment that ends
\* ContinuousDeploymentConstruct.constructor
PipelineConstruct ==
  /\ pc = "continuous_deployment.pipeline"
  /\ tree' = tree \o
       << DataSource("continuous_deployment", PipelineScope, "data.aws_iam_policy_document",
                     "codepipeline_assume_role_policy", <<>>, [version |-> "2012-10-17"], {}),
          Resource("continuous_deployment", PipelineScope, "aws_iam_role", "codepipeline_role", <<>>,
                   [assumeRolePolicy |-> "codepipeline_assume_role_policy"],
                   {Key("data.aws_iam_policy_document", "codepipeline_assume_role_policy", <<>>)}),
          DataSource("continuous_deployment", PipelineScope, "data.aws_iam_policy_document",
                     "codepipeline_role_policy_document", <<>>, [version |-> "2012-10-17"],
                     { PipelineBucketKey,
                       Key("aws_codebuild_project", "codebuild_build_project", <<>>),
                       Key("aws_codebuild_project", "codebuild_test_project", <<>>),
                       Key("aws_codebuild_project", "codebuild_pre_deploy_project", <<>>) }),
          Resource("continuous_deployment", PipelineScope, "aws_iam_role_policy",
                   "codepipeline_role_policy", <<>>,
                   [policy |-> "codepipeline_role_policy_document"],
                   { Key("data.aws_iam_policy_document", "codepipeline_role_policy_document", <<>>),
                     PipelineRoleKey }),
          Codepipeline,
          Resource("continuous_deployment", PipelineScope, "aws_codepipeline_webhook",
                   "codepipeline_webhook", <<>>,
                   [ authentication |-> "GITHUB_HMAC",
                     targetPipeline |-> Ref(PipelineKey, "name"),
                     dependsOn |-> <<PipelineKey>> ],
                   {PipelineKey}),
          NullResource("deregister_webhook", "deregister-webhook-with-third-party",
                       "destroy", <<WebhookKey>>, {WebhookKey, PipelineKey}),
          NullResource("register_webhook", "register-webhook-with-third-party",
                       "", RegisterWebhookDependsOn, {WebhookKey, PipelineKey}),
          NullResource("start_pipeline", "start-pipeline-execution",
                       "", StartPipelineDependsOn, {PipelineKey}) >>
  /\ unitLog' = Append(unitLog, End("continuous_deployment"))
  /\ pc' = After(pc)
  /\ NoThrow
  /\ UNCHANGED << input, props, sslValidationDnsRecords, outputs, emitted, run, previous, terraform >>

(***************************************************************************)
(* Dashboard unit (lib/constructs/dashboard)                               *)
(***************************************************************************)
DashboardKey == Key("aws_cloudwatch_dashboard", "cloudwatch_dashboard", <<>>)

\* The units whose outputs main.ts passes to DashboardConstruct
DashboardConsumes == {"network", "computing"}

\* One element of widgets: [...] in the dashboard body
DashboardWidget(type, title, annotations) ==
  [type |-> type, title |-> title, annotations |-> annotations]

\* The threshold annotation written whatever the flag
AutoScalingAnnotationsAlways(enableAutoScaling, limitPercent) ==
  << [label |-> "Autoscaling triggered", value |-> limitPercent] >>

\* annotations: props.enableAutoScaling ? {horizontal: [{label, value}]} : {}
AutoScalingAnnotations(enableAutoScaling, limitPercent) ==
  IF enableAutoScaling
  THEN << [label |-> "Autoscaling triggered", value |-> limitPercent] >>
  ELSE <<>>

\* widgets: [...] of the dashboard body
DashboardWidgets(enableAutoScaling, cpuLimitPercent, memoryLimitPercent) ==
  << DashboardWidget("metric", "Fargate tasks", <<>>),
     DashboardWidget("metric", "Fargate tasks HTTP errors", <<>>),
     DashboardWidget("metric", "Fargate tasks memory usage",
                     AutoScalingAnnotations(enableAutoScaling, memoryLimitPercent)),
     DashboardWidget("metric", "Fargate tasks CPU usage",
                     AutoScalingAnnotations(enableAutoScaling, cpuLimitPercent)),
     DashboardWidget("metric", "Fargate tasks response time",
                     << [label |-> "Slow", value |-> "0.8"] >>),
     DashboardWidget("log", "Fargate tasks logs", <<>>) >>

\* DashboardConstruct.constructor
DashboardConstruct ==
  /\ pc = "dashboard"
  /\ unitLog' = unitLog \o << Begin("dashboard", DashboardConsumes), End("dashboard") >>
  /\ tree' = Append(tree,
       Resource("dashboard", "dashboard", "aws_cloudwatch_dashboard", "cloudwatch_dashboard", <<>>,
                [ dashboardName |-> "resourceNamesPrefix",
                  widgets |-> DashboardWidgets(props.enableAutoScaling,
                                               props.autoScalingCpuLimitPercent,
                                               props.autoScalingMemoryLimitPercent),
                  dependsOn |-> <<LbKey, LbTargetGroupKey, ContainersLogsGroupKey,
                                  ClusterKey, ServiceKey>> ],
                { LbKey, LbTargetGroupKey, ContainersLogsGroupKey, ClusterKey, ServiceKey,
                  CurrentRegionKey }))
  /\ pc' = After(pc)
  /\ NoThrow
  /\ UNCHANGED << input, props, sslValidationDnsRecords, outputs, emitted, run, previous, terraform >>

(***************************************************************************)
(* Root: outputs and synthesis (main.ts)                                   *)
(***************************************************************************)
\* The three outputs that are plain strings
AddressAndUrlOutputs ==
  << [name |-> "application_load_balancer_uri", value |-> <<Ref(LbKey, "dns_name")>>],
     [name |-> "dashboard_url",
      value |-> <<Ref(CurrentRegionKey, "name"), Ref(DashboardKey, "dashboard_name")>>],
     [name |-> "pipeline_execution_details_url",
      value |-> <<Ref(PipelineKey, "name"), Ref(CurrentRegionKey, "name")>>] >>

\* The outputs without the list of validation records
OutputsWithoutValidationRecords(validationDns) == AddressAndUrlOutputs

\* The four new TerraformOutput(this, name, {value}) of the root, in order
Outputs(validationDns) ==
  AddressAndUrlOutputs \o
  << [name |-> "ssl_validation_dns_records",
      value |-> [k \in 1..Len(validationDns) |->
                   [t |-> "ref",
                    v |-> validationDns[k].certificate
                            \o <<"domain_validation_options">>
                            \o NumberToString(validationDns[k].option)]]] >>

\* The end of the root constructor: the outputs
TerraformOutputs ==
  /\ pc = "outputs"
  /\ outputs' = Outputs(sslValidationDnsRecords)
  /\ pc' = After(pc)
  /\ NoThrow
  /\ UNCHANGED << input, props, tree, sslValidationDnsRecords, unitLog, emitted, run, previous, terraform >>

\* Synthesis that adds to the output of an earlier pass instead of replacing it
SynthAppendingToPreviousOutput ==
  /\ pc = "synth"
  /\ emitted' = [resources |-> previous.resources \o tree, outputs |-> previous.outputs \o outputs]
  /\ pc' = After(pc)
  /\ NoThrow
  /\ UNCHANGED << input, props, tree, sslValidationDnsRecords, unitLog, outputs, run, previous, terraform >>

\* Synthesis that also runs once the constructor has thrown
SynthDespiteError ==
  /\ pc \in {"synth", "failed"}
  /\ emitted = NothingEmitted
  /\ emitted' = [resources |-> tree, outputs |-> outputs]
  /\ pc' = IF pc = "failed" THEN "failed" ELSE After(pc)
  /\ NoThrow
  /\ UNCHANGED << input, props, tree, sslValidationDnsRecords, unitLog, outputs, run, previous, terraform >>

\* app.synth(): reached only when the constructor returned
Synth ==
  /\ pc = "synth"
  /\ emitted' = [resources |-> tree, outputs |-> outputs]
  /\ pc' = After(pc)
  /\ NoThrow
  /\ UNCHANGED << input, props, tree, sslValidationDnsRecords, unitLog, outputs, run, previous, terraform >>

(***************************************************************************)
(* The provisioning tool on the resources of PipelineConstruct: it creates *)
(* a resource once everything the resource depends on exists, destroys it  *)
(* once nothing that exists depends on it, and runs a local-exec           *)
(* provisioner at creation unless its "when" is "destroy"                  *)
(***************************************************************************)
\* The resources PipelineConstruct declared, as synthesised
PipelineResources ==
  { i \in 1..Len(emitted.resources) : emitted.resources[i].scope = PipelineScope }

\* dependsOn and attribute references of one of them, within the construct
DependenciesOf(i) ==
  emitted.resources[i].uses \cap { KeyOf(emitted.resources[j]) : j \in PipelineResources }

\* The provisioner.local-exec command of a resource, if its "when" says
\* the phase
CommandsOf(d, phase) ==
  LET commands == { o.val.v[1] : o \in { x \in d.ovr :
                      x.path = <<"provisioner", "local-exec", "command">> } }
      atDestroy == \E o \in d.ovr : /\ o.path = <<"provisioner", "local-exec", "when">>
                                    /\ o.val = Str("destroy")
  IN IF (phase = "destroy") = atDestroy THEN commands ELSE {}

\* The commands run so far, then the resource's own for the phase
RanWith(d, phase) ==
  IF CommandsOf(d, phase) = {} THEN terraform.ran
  ELSE Append(terraform.ran, CHOOSE c \in CommandsOf(d, phase) : TRUE)

\* terraform apply: one resource whose dependencies exist is created
TerraformCreate ==
  /\ pc = "done"
  /\ terraform.phase = "apply"
  /\ \E i \in PipelineResources :
       /\ KeyOf(emitted.resources[i]) \notin terraform.created
       /\ DependenciesOf(i) \subseteq terraform.created
       /\ terraform' = [ terraform EXCEPT
                           !.phase = "apply",
                           !.created = terraform.created \cup {KeyOf(emitted.resources[i])},
                           !.ran = RanWith(emitted.resources[i], "apply") ]
  /\ UNCHANGED << input, pc, props, tree, sslValidationDnsRecords, unitLog, outputs,
                  emitted, error, failedAt, run, previous >>

\* terraform destroy, after a complete apply: one resource nothing that
\* exists depends on is destroyed
TerraformDestroy ==
  /\ pc = "done"
  /\ \/ terraform.phase = "destroy"
     \/ \A i \in PipelineResources : KeyOf(emitted.resources[i]) \in terraform.created
  /\ \E i \in PipelineResources :
       /\ KeyOf(emitted.resources[i]) \in terraform.created
       /\ \A j \in PipelineResources :
            KeyOf(emitted.resources[j]) \in terraform.created
              => KeyOf(emitted.resources[i]) \notin DependenciesOf(j)
       /\ terraform' = [ terraform EXCEPT
                           !.phase = "destroy",
                           !.created = terraform.created \ {KeyOf(emitted.resources[i])},
                           !.ran = RanWith(emitted.resources[i], "destroy") ]
  /\ UNCHANGED << input, pc, props, tree, sslValidationDnsRecords, unitLog, outputs,
                  emitted, error, failedAt, run, previous >>

(***************************************************************************)
(* The provisioning tool and Application Auto Scaling on the service: a    *)
(* configuration applied to a resource that exists updates the attributes  *)
(* that differ, except those named in lifecycle.ignore_changes             *)
(***************************************************************************)
ServicesEmitted ==
  { emitted.resources[k] : k \in IndicesOfType(emitted.resources, "aws_ecs_service") }

\* The desired count after a configuration is applied to the live service
AppliedDesiredCount(service, live) ==
  IF "desired_count" \in Range(service.cfg.ignoreChanges) THEN live
  ELSE service.cfg.desiredCount

\* terraform apply, the service does not exist yet
TerraformCreateService ==
  /\ pc = "done"
  /\ terraform.desiredCount = 0
  /\ \E service \in ServicesEmitted :
       terraform' = [ terraform EXCEPT !.desiredCount = service.cfg.desiredCount,
                                       !.planned = service.cfg.desiredCount ]
  /\ UNCHANGED << input, pc, props, tree, sslValidationDnsRecords, unitLog, outputs,
                  emitted, error, failedAt, run, previous >>

\* terraform apply on the existing service, of the configuration composed
\* from inputs that give desiredCount another value
TerraformReapplyService ==
  /\ pc = "done"
  /\ terraform.desiredCount # 0
  /\ \E service \in ServicesEmitted, desiredCount \in 1..MaxZones :
       terraform' =
         [ terraform EXCEPT
             !.desiredCount =
               AppliedDesiredCount([service EXCEPT !.cfg.desiredCount = desiredCount],
                                   terraform.desiredCount),
             !.planned = desiredCount,
             !.reapplied = TRUE ]
  /\ UNCHANGED << input, pc, props, tree, sslValidationDnsRecords, unitLog, outputs,
                  emitted, error, failedAt, run, previous >>

\* Application Auto Scaling sets the desired count of the live service
\* within the capacity of the scaling target
ScaleService ==
  /\ pc = "done"
  /\ terraform.desiredCount # 0
  /\ \E k \in IndicesOfType(emitted.resources, "aws_appautoscaling_target") :
       \E desiredCount \in emitted.resources[k].cfg.minCapacity
                             .. emitted.resources[k].cfg.maxCapacity :
         terraform' = [ terraform EXCEPT !.desiredCount = desiredCount ]
  /\ UNCHANGED << input, pc, props, tree, sslValidationDnsRecords, unitLog, outputs,
                  emitted, error, failedAt, run, previous >>

(***************************************************************************)
(* Specifications                                                          *)
(***************************************************************************)
Next ==
  \/ ReadConfiguration
  \/ DirectCall
  \/ VpcConstruct
  \/ InternetGatewayConstruct
  \/ SubnetsConstruct
  \/ ElasticIpsConstruct
  \/ NatGatewaysConstruct
  \/ RouteTablesConstruct
  \/ SslConstruct
  \/ ApplicationLoadBalancerConstruct
  \/ ContainersLogsGroup
  \/ EnvironmentVariablesConstruct
  \/ ClusterConstruct
  \/ RepositoryConstruct
  \/ TasksConstruct
  \/ ServiceConstruct
  \/ AutoScalingConstruct
  \/ PatchEgressRule
  \/ BuildsConstruct
  \/ PipelineConstruct
  \/ DashboardConstruct
  \/ TerraformOutputs
  \/ Synth

Spec == Init /\ [][Next]_vars

\* A second pass over the same input, in a new process: everything but the
\* input starts afresh, and what the first pass emitted is kept aside.
Resynthesize ==
  /\ pc = "done"
  /\ run = 1
  /\ run' = 2
  /\ previous' = emitted
  /\ pc' = "start"
  /\ props' = NoProps
  /\ tree' = <<>>
  /\ sslValidationDnsRecords' = <<>>
  /\ unitLog' = <<>>
  /\ outputs' = <<>>
  /\ emitted' = NothingEmitted
  /\ UNCHANGED << input, error, failedAt, terraform >>

NextTwice == Next \/ Resynthesize

SpecTwice == Init /\ [][NextTwice]_vars

\* The composition followed by the provisioning tool's apply and destroy
NextApply == Next \/ TerraformCreate \/ TerraformDestroy

\* The provisioning tool is handed a composition whose route tables were
\* passed every NAT gateway and private subnet; the prefixed variables of
\* the environment are left out, neither PipelineConstruct nor
\* ServiceConstruct is passed any of them
InitApply ==
  /\ Init
  /\ input.env.names = <<>>
  /\ input.props.natGatewaysWithheld = 0
  /\ input.props.privateSubnetsWithheld = 0

SpecApply == InitApply /\ [][NextApply]_vars

\* The composition followed by applications of the service's configuration
\* and by auto-scaling
NextService == Next \/ TerraformCreateService \/ TerraformReapplyService \/ ScaleService

SpecService == InitApply /\ [][NextService]_vars

(***************************************************************************)
(* Properties                                                              *)
(***************************************************************************)
\* The constructor at the stage has been entered: it returned or it threw
Ran(stage) ==
  IF pc = "failed"
  THEN StageIndex(failedAt) >= StageIndex(stage)
  ELSE StageIndex(pc) > StageIndex(stage)

\* The constructor at the stage has returned
Returned(stage) ==
  IF pc = "failed"
  THEN StageIndex(failedAt) > StageIndex(stage)
  ELSE StageIndex(pc) > StageIndex(stage)

\* The constructor at the stage has thrown
ThrewAt(stage) == pc = "failed" /\ failedAt = stage

ResourcesOf(t) == {i \in 1..Len(t) : t[i].kind = "resource"}

ZonesOfRun == props.numberOfAvailabilityZonesUsed

\* C1: for every integer zone count N >= 1 the network unit produces exactly
\* N private subnets, max(N, 2) public subnets, N elastic IPs and N NAT
\* gateways, and none of the four constructors throws.
C1_NetworkCounts ==
  (Returned("start") /\ ZonesOfRun >= 1) =>
    /\ Ran("network.subnets") =>
         /\ ~ThrewAt("network.subnets")
         /\ CountOf(tree, "aws_subnet", "private_subnet_") = ZonesOfRun
         /\ CountOf(tree, "aws_subnet", "public_subnet_")
              = (IF ZonesOfRun >= 2 THEN ZonesOfRun ELSE 2)
    /\ Ran("network.elastic_ips") =>
         /\ ~ThrewAt("network.elastic_ips")
         /\ Cardinality(IndicesOfType(tree, "aws_eip")) = ZonesOfRun
    /\ Ran("network.nat_gateways") =>
         /\ ~ThrewAt("network.nat_gateways")
         /\ Cardinality(IndicesOfType(tree, "aws_nat_gateway")) = ZonesOfRun

\* One zone: one private subnet, one NAT gateway, yet two public subnets
C1_Witness ==
  /\ Returned("network.nat_gateways")
  /\ ZonesOfRun = 1
  /\ CountOf(tree, "aws_subnet", "private_subnet_") = 1
  /\ CountOf(tree, "aws_subnet", "public_subnet_") = 2
  /\ Cardinality(IndicesOfType(tree, "aws_nat_gateway")) = 1

OutsidePercentRange(percent) == ~(percent >= 1 /\ percent <= 100)

LimitMessages ==
  { "Memory limit must be comprised between 1 and 100",
    "CPU limit must be comprised between 1 and 100" }

\* Auto-scaling is asked for with a CPU or memory limit outside [1, 100]
LimitOutsideRangeRequested ==
  /\ Returned("start")
  /\ props.enableAutoScaling
  /\ \/ OutsidePercentRange(props.autoScalingCpuLimitPercent)
     \/ OutsidePercentRange(props.autoScalingMemoryLimitPercent)

AutoScalingDescriptors(t) ==
  IndicesOfType(t, "aws_appautoscaling_target") \cup IndicesOfType(t, "aws_appautoscaling_policy")

\* C2 as stated: when the composition has failed on a CPU or memory limit
\* outside [1, 100], no resource descriptor has been produced.
C2_NoDescriptorBeforeLimitFailure ==
  (LimitOutsideRangeRequested /\ ThrewAt("computing.auto_scaling")) =>
    ResourcesOf(tree) = {}

\* C2: with auto-scaling enabled and a CPU or memory limit outside [1, 100],
\* the auto-scaling constructor throws the limit error, no scalable target
\* and no scaling policy is produced, no later unit is built and nothing is
\* synthesised; the descriptors of the network unit and of the computing
\* sub-units built before it are already in the tree.
C2_LimitFailureStopsAutoScaling ==
  LimitOutsideRangeRequested =>
    /\ AutoScalingDescriptors(tree) = {}
    /\ emitted = NothingEmitted
    /\ ~Returned("computing.auto_scaling")
    /\ Ran("computing.auto_scaling") =>
         /\ ThrewAt("computing.auto_scaling")
         /\ error \in LimitMessages
         /\ IndicesOfType(tree, "aws_vpc") # {}
         /\ IndicesOfType(tree, "aws_ecs_service") # {}

\* The CPU limit is 101, the memory limit is in range, and the throw has happened
C2_Witness ==
  /\ ThrewAt("computing.auto_scaling")
  /\ props.enableAutoScaling
  /\ props.autoScalingCpuLimitPercent = 101
  /\ props.autoScalingMemoryLimitPercent = 100
  /\ error = "CPU limit must be comprised between 1 and 100"
  /\ ResourcesOf(tree) # {}

ServiceMessage == "Your Fargate cluster must run at least one task"

\* C3: when the minimum number of running tasks is below 1 the service
\* constructor throws, no service descriptor is produced and nothing is
\* synthesised, whether auto-scaling is enabled or not.
C3_NoServiceBelowOneTask ==
  (Returned("start") /\ props.minimumNumberOfRunningFargateTasks < 1) =>
    /\ IndicesOfType(tree, "aws_ecs_service") = {}
    /\ ~Returned("computing.service")
    /\ emitted = NothingEmitted
    /\ Ran("computing.service") =>
         /\ ThrewAt("computing.service")
         /\ error = ServiceMessage

\* The throw of the service constructor with auto-scaling disabled
C3_Witness ==
  /\ ThrewAt("computing.service")
  /\ props.minimumNumberOfRunningFargateTasks < 1
  /\ ~props.enableAutoScaling
  /\ error = ServiceMessage
  /\ IndicesOfType(tree, "aws_ecs_service") = {}

\* C4: given a domain list with no element the certificate constructor
\* throws: no certificate descriptor and no validation record is produced.
C4_NoCertificateWithoutDomain ==
  (Returned("start") /\ Len(props.domainNames) = 0) =>
    /\ IndicesOfType(tree, "aws_acm_certificate") = {}
    /\ sslValidationDnsRecords = <<>>
    /\ ~Returned("network.ssl")
    /\ Ran("network.ssl") =>
         /\ ThrewAt("network.ssl")
         /\ error = "You must specify at least one domain name"

\* The throw of the certificate constructor on the empty list
C4_Witness ==
  /\ ThrewAt("network.ssl")
  /\ props.domainNames = <<>>
  /\ IndicesOfType(tree, "aws_acm_certificate") = {}
  /\ sslValidationDnsRecords = <<>>

\* The names of the environment that start with the prefix, without it
NamesWithout(prefix) ==
  { StripPrefix(input.env.names[k], prefix) :
      k \in {j \in 1..Len(input.env.names) : StartsWith(input.env.names[j], prefix)} }

\* The names of the secret parameters of one category
ParameterNames(base) ==
  { tree[i].cfg.name : i \in IndicesOf(tree, "aws_ssm_parameter", base) }

\* C5: once the environment-variables constructor has run, the application
\* secret parameters are exactly the APPLICATION_ names with the prefix
\* stripped, the build secret parameters exactly the BUILD_ names with the
\* prefix stripped, one parameter per name.
C5_OneParameterPerPrefixedName ==
  (input.caller = "main" /\ Ran("computing.environment_variables")) =>
    /\ ParameterNames("ssm_parameter_application_") = NamesWithout(APPLICATION_)
    /\ CountOf(tree, "aws_ssm_parameter", "ssm_parameter_application_")
         = Cardinality(NamesWithout(APPLICATION_))
    /\ ParameterNames("ssm_parameter_builds_") = NamesWithout(BUILD_)
    /\ CountOf(tree, "aws_ssm_parameter", "ssm_parameter_builds_")
         = Cardinality(NamesWithout(BUILD_))

SecurityGroupElementFields ==
  { <<"description", "description">>, <<"ipv6CidrBlocks", "ipv6_cidr_blocks">>,
    <<"prefixListIds", "prefix_list_ids">>, <<"securityGroups", "security_groups">>,
    <<"self", "self">>, <<"cidrBlocks", "cidr_blocks">> }

SecurityGroupRuleFields ==
  { <<"description", "description">>, <<"ipv6CidrBlocks", "ipv6_cidr_blocks">>,
    <<"prefixListIds", "prefix_list_ids">>,
    <<"sourceSecurityGroupId", "source_security_group_id">>,
    <<"self", "self">>, <<"cidrBlocks", "cidr_blocks">> }

RouteFields ==
  { <<"egressOnlyGatewayId", "egress_only_gateway_id">>, <<"instanceId", "instance_id">>,
    <<"ipv6CidrBlock", "ipv6_cidr_block">>, <<"localGatewayId", "local_gateway_id">>,
    <<"natGatewayId", "nat_gateway_id">>, <<"networkInterfaceId", "network_interface_id">>,
    <<"transitGatewayId", "transit_gateway_id">>,
    <<"vpcPeeringConnectionId", "vpc_peering_connection_id">>,
    <<"gatewayId", "gateway_id">> }

\* Every field of the set the element leaves out has a null override at its path
UnsetFieldsAreNull(d, element, path, fields) ==
  \A f \in fields :
    f[1] \notin DOMAIN element =>
      [path |-> path \o <<f[2]>>, val |-> Null] \in d.ovr

ListElementsAreNull(d, name, fields) ==
  name \in DOMAIN d.cfg =>
    \A k \in 1..Len(d.cfg[name]) :
      UnsetFieldsAreNull(d, d.cfg[name][k], <<name, NumberToString(k - 1)>>, fields)

NullOverridesIn(t) ==
  \A i \in 1..Len(t) :
    /\ t[i].type = "aws_security_group" =>
         /\ ListElementsAreNull(t[i], "ingress", SecurityGroupElementFields)
         /\ ListElementsAreNull(t[i], "egress", SecurityGroupElementFields)
    /\ t[i].type = "aws_security_group_rule" =>
         UnsetFieldsAreNull(t[i], t[i].cfg, <<>>, SecurityGroupRuleFields)
    /\ t[i].type = "aws_route_table" =>
         ListElementsAreNull(t[i], "route", RouteFields)

\* C6: every ingress and egress element of every security group, every
\* security group rule and every route of every route table that leaves an
\* optional field unset carries a null override for that field, in the tree
\* and in what is synthesised.
C6_UnsetOptionalFieldsAreNull ==
  NullOverridesIn(tree) /\ NullOverridesIn(emitted.resources)

\* A synthesised output with a security group that has both lists, a rule and
\* a route, each leaving optional fields out
C6_Witness ==
  /\ pc = "done"
  /\ \E i \in IndicesOfType(emitted.resources, "aws_security_group") :
       LET d == emitted.resources[i]
       IN /\ "ingress" \in DOMAIN d.cfg /\ Len(d.cfg.ingress) > 0
          /\ "egress" \in DOMAIN d.cfg /\ Len(d.cfg.egress) > 0
          /\ "cidrBlocks" \notin DOMAIN d.cfg.ingress[1]
          /\ "securityGroups" \notin DOMAIN d.cfg.egress[1]
          /\ [path |-> <<"egress", <<"0">>, "security_groups">>, val |-> Null] \in d.ovr
  /\ \E i \in IndicesOfType(emitted.resources, "aws_security_group_rule") :
       "description" \notin DOMAIN emitted.resources[i].cfg
  /\ \E i \in IndicesOfType(emitted.resources, "aws_route_table") :
       "natGatewayId" \notin DOMAIN emitted.resources[i].cfg.route[1]

OneZoneExampleComInput ==
  /\ Returned("start")
  /\ ZonesOfRun = 1
  /\ props.domainNames = <<ExampleCom>>
  /\ ~props.enableAutoScaling
  /\ props.minimumNumberOfRunningFargateTasks = 1

\* C8: with 1 availability zone, the single domain example.com, auto-scaling
\* disabled and a minimum of 1 task, the synthesised output contains exactly
\* 1 private subnet, 2 public subnets and 1 NAT gateway, no auto-scaling
\* target or policy, and one service whose desired count is 1.
C8_OneZoneOutput ==
  (OneZoneExampleComInput /\ pc = "done") =>
    /\ CountOf(emitted.resources, "aws_subnet", "private_subnet_") = 1
    /\ CountOf(emitted.resources, "aws_subnet", "public_subnet_") = 2
    /\ Cardinality(IndicesOfType(emitted.resources, "aws_subnet")) = 3
    /\ Cardinality(IndicesOfType(emitted.resources, "aws_nat_gateway")) = 1
    /\ AutoScalingDescriptors(emitted.resources) = {}
    /\ Cardinality(IndicesOfType(emitted.resources, "aws_ecs_service")) = 1
    /\ \A i \in IndicesOfType(emitted.resources, "aws_ecs_service") :
         emitted.resources[i].cfg.desiredCount = 1

\* The output of main.ts for NUMBER_OF_AVAILABILITY_ZONES_USED=1,
\* DOMAIN_NAMES=example.com and ENABLE_AUTO_SCALING=false
C8_Witness ==
  /\ OneZoneExampleComInput
  /\ input.caller = "main"
  /\ pc = "done"
  /\ IndicesOfType(emitted.resources, "aws_ecs_service") # {}

\* C9: whenever the composition has ended in an error, nothing has been
\* synthesised (no resource descriptor and no output is emitted), and the
\* composition takes no further step; conversely whatever is emitted comes
\* from a composition that did not fail.
C9_NothingEmittedOnError ==
  /\ pc = "failed" =>
       /\ emitted = NothingEmitted
       /\ error # ""
       /\ ~ENABLED Next
  /\ emitted # NothingEmitted => (pc = "done" /\ error = "")

\* A validation error raised after descriptors were constructed in memory
C9_Witness ==
  /\ pc = "failed"
  /\ error = "The number of NAT gateways must match the number of private subnets"
  /\ ResourcesOf(tree) # {}
  /\ emitted = NothingEmitted

UnitRank(unit) ==
  IF unit = "root" THEN 0 ELSE CHOOSE k \in 1..Len(Units) : Units[k] = unit

\* The units whose construction has ended before the k-th event of the log
EndedBefore(k) ==
  { unitLog[j].unit : j \in {i \in 1..(k - 1) : unitLog[i].ev = "end"} }

\* The units a unit was handed outputs of when its construction began
ConsumedBy(unit) ==
  UNION { unitLog[k].from : k \in {i \in 1..Len(unitLog) :
                                     unitLog[i].unit = unit /\ unitLog[i].ev = "begin"} }

Started(unit) ==
  \E k \in 1..Len(unitLog) : unitLog[k].unit = unit /\ unitLog[k].ev = "begin"

Ended(unit) ==
  \E k \in 1..Len(unitLog) : unitLog[k].unit = unit /\ unitLog[k].ev = "end"

OutputNames(published) == [k \in 1..Len(published) |-> published[k].name]

FourOutputNames ==
  << "application_load_balancer_uri", "dashboard_url",
     "pipeline_execution_details_url", "ssl_validation_dns_records" >>

\* C11: outputs exist only once the four units are built, and then they are
\* exactly the load-balancer address, the dashboard URL, the pipeline
\* execution details URL and the list of validation records (one per domain
\* name); a successful composition publishes exactly these four, and a failed
\* one publishes none.
C11_FourOutputsAfterUnits ==
  /\ outputs # <<>> =>
       /\ \A k \in 1..Len(Units) : Ended(Units[k])
       /\ OutputNames(outputs) = FourOutputNames
       /\ Len(outputs[4].value) = Len(props.domainNames)
  /\ ~Returned("outputs") => outputs = <<>>
  /\ pc = "done" => (emitted.outputs = outputs /\ Len(emitted.outputs) = 4)
  /\ pc = "failed" => (outputs = <<>> /\ emitted.outputs = <<>>)

\* A synthesised composition with its four outputs, two validation records among them
C11_Witness ==
  /\ pc = "done"
  /\ OutputNames(emitted.outputs) = FourOutputNames
  /\ Len(emitted.outputs[4].value) = 2

PipelinesOf(t) == IndicesOfType(t, "aws_codepipeline")

StagesOf(t, i) == t[i].cfg.stage

\* The artifacts the stages before the k-th one put out
ArtifactsBefore(stages, k) ==
  UNION { Range(stages[j].outputArtifacts) : j \in 1..(k - 1) }

\* C12 as stated: the five stages are in order and whatever artifact a stage
\* puts out is an input of the stage after it.
C12_EachOutputFeedsNextStage ==
  \A i \in PipelinesOf(tree) :
    /\ [k \in 1..Len(StagesOf(tree, i)) |-> StagesOf(tree, i)[k].name]
         = <<"Source", "Test", "Build", "Pre-Deploy", "Deploy">>
    /\ \A k \in 1..(Len(StagesOf(tree, i)) - 1) :
         Range(StagesOf(tree, i)[k].outputArtifacts)
           \subseteq Range(StagesOf(tree, i)[k + 1].inputArtifacts)

\* C12: there is one pipeline and it has exactly the five stages Source, Test,
\* Build, Pre-Deploy, Deploy in that order; every input artifact of a stage is
\* put out by an earlier stage: Test, Build and Pre-Deploy each read Source's
\* source_output, Deploy reads Build's build_output, and only Source and
\* Build put an artifact out.
C12_StagesReadEarlierArtifacts ==
  /\ Cardinality(PipelinesOf(tree)) <= 1
  /\ Returned("continuous_deployment.pipeline") => Cardinality(PipelinesOf(tree)) = 1
  /\ \A i \in PipelinesOf(tree) :
       LET stages == StagesOf(tree, i)
       IN /\ [k \in 1..Len(stages) |-> stages[k].name]
               = <<"Source", "Test", "Build", "Pre-Deploy", "Deploy">>
          /\ \A k \in 1..Len(stages) :
               Range(stages[k].inputArtifacts) \subseteq ArtifactsBefore(stages, k)
          /\ [k \in 1..Len(stages) |-> stages[k].inputArtifacts]
               = << <<>>, <<"source_output">>, <<"source_output">>,
                    <<"source_output">>, <<"build_output">> >>
          /\ [k \in 1..Len(stages) |-> stages[k].outputArtifacts]
               = << <<"source_output">>, <<>>, <<"build_output">>, <<>>, <<>> >>

\* The pipeline is in the synthesised output with its five stages
C12_Witness ==
  /\ pc = "done"
  /\ \E i \in PipelinesOf(emitted.resources) :
       /\ Len(StagesOf(emitted.resources, i)) = 5
       /\ StagesOf(emitted.resources, i)[5].inputArtifacts = <<"build_output">>

\* The annotations of the widgets of a dashboard that have the title
AnnotationsOf(dashboard, title) ==
  { dashboard.cfg.widgets[k].annotations :
      k \in {j \in 1..Len(dashboard.cfg.widgets) : dashboard.cfg.widgets[j].title = title} }

ThresholdAnnotation(limitPercent) ==
  << [label |-> "Autoscaling triggered", value |-> limitPercent] >>

PolicyTargets(t, metric) ==
  { t[i].cfg.targetValue :
      i \in {j \in IndicesOfType(t, "aws_appautoscaling_policy") :
               t[j].cfg.predefinedMetricType = metric} }

\* The auto-scaling target, both policies and both threshold annotations are there
AutoScalingPresentIn(t) ==
  /\ Cardinality(IndicesOfType(t, "aws_appautoscaling_target")) = 1
  /\ Cardinality(IndicesOfType(t, "aws_appautoscaling_policy")) = 2
  /\ PolicyTargets(t, "ECSServiceAverageCPUUtilization") = {props.autoScalingCpuLimitPercent}
  /\ PolicyTargets(t, "ECSServiceAverageMemoryUtilization") = {props.autoScalingMemoryLimitPercent}
  /\ \A i \in IndicesOfType(t, "aws_cloudwatch_dashboard") :
       /\ AnnotationsOf(t[i], "Fargate tasks memory usage")
            = {ThresholdAnnotation(props.autoScalingMemoryLimitPercent)}
       /\ AnnotationsOf(t[i], "Fargate tasks CPU usage")
            = {ThresholdAnnotation(props.autoScalingCpuLimitPercent)}

\* None of them is there
AutoScalingAbsentFrom(t) ==
  /\ AutoScalingDescriptors(t) = {}
  /\ \A i \in IndicesOfType(t, "aws_cloudwatch_dashboard") :
       /\ AnnotationsOf(t[i], "Fargate tasks memory usage") = {<<>>}
       /\ AnnotationsOf(t[i], "Fargate tasks CPU usage") = {<<>>}

\* C13: in every synthesised output the auto-scaling target, the CPU and
\* memory target-tracking policies (with the configured limits as targets)
\* and the threshold annotations of the memory and CPU widgets are all there
\* when the flag is true and all absent when it is false; the one dashboard
\* has six widgets either way.  In the tree, too, no auto-scaling descriptor
\* and no threshold annotation exists with the flag false.
C13_AutoScalingGatedByFlag ==
  /\ pc = "done" =>
       /\ IF props.enableAutoScaling
          THEN AutoScalingPresentIn(emitted.resources)
          ELSE AutoScalingAbsentFrom(emitted.resources)
       /\ Cardinality(IndicesOfType(emitted.resources, "aws_cloudwatch_dashboard")) = 1
  /\ (Returned("start") /\ ~props.enableAutoScaling) => AutoScalingAbsentFrom(tree)
  /\ \A i \in IndicesOfType(tree, "aws_cloudwatch_dashboard") :
       Len(tree[i].cfg.widgets) = 6

\* A synthesised output with the flag true: target, policies and annotations
C13_Witness ==
  /\ pc = "done"
  /\ props.enableAutoScaling
  /\ AutoScalingPresentIn(emitted.resources)
  /\ \E i \in IndicesOfType(emitted.resources, "aws_cloudwatch_dashboard") :
       Len(emitted.resources[i].cfg.widgets) = 6

\* The lengths of the two lists the route-table constructor is handed
NatGatewaysHandedOver ==
  Cardinality(IndicesOfType(tree, "aws_nat_gateway")) - props.natGatewaysWithheld

PrivateSubnetsHandedOver ==
  CountOf(tree, "aws_subnet", "private_subnet_") - props.privateSubnetsWithheld

RouteTableDescriptors(t) ==
  IndicesOfType(t, "aws_route_table") \cup IndicesOfType(t, "aws_route_table_association")

\* C14: whenever the route-table constructor is handed a list of NAT gateways
\* whose length differs from that of its list of private subnets (shorter or
\* longer), it throws and no route table and no association is produced; when
\* the lengths agree it does not throw and builds one private route table per
\* subnet handed over; every synthesised output has as many NAT gateways as
\* private subnets.
C14_RouteTablesNeedMatchingNatGateways ==
  /\ Ran("network.route_tables") =>
       IF NatGatewaysHandedOver # PrivateSubnetsHandedOver
       THEN /\ ThrewAt("network.route_tables")
            /\ error = "The number of NAT gateways must match the number of private subnets"
            /\ RouteTableDescriptors(tree) = {}
       ELSE /\ ~ThrewAt("network.route_tables")
            /\ CountOf(tree, "aws_route_table", "private_subnets_route_table_")
                 = PrivateSubnetsHandedOver
  /\ ~Ran("network.route_tables") => RouteTableDescriptors(tree) = {}
  /\ pc = "done" =>
       Cardinality(IndicesOfType(emitted.resources, "aws_nat_gateway"))
         = CountOf(emitted.resources, "aws_subnet", "private_subnet_")

\* The throw on a list of NAT gateways longer than the list of private subnets
C14_Witness ==
  /\ ThrewAt("network.route_tables")
  /\ NatGatewaysHandedOver > PrivateSubnetsHandedOver
  /\ RouteTableDescriptors(tree) = {}

\* The overrides a descriptor carries on one path
OverridesAt(d, path) == { o.val : o \in {x \in d.ovr : x.path = path} }

\* What an attribute reads in the output: its override if it has one, else
\* the value it was constructed with
EffectiveValue(d, property, path) ==
  IF OverridesAt(d, path) # {}
  THEN CHOOSE val \in OverridesAt(d, path) : TRUE
  ELSE d.cfg[property]

EgressRulesOf(t) ==
  { i \in 1..Len(t) : KeyOf(t[i]) = LbEgressRuleKey }

SourceOfEgressRule(t, i) ==
  EffectiveValue(t[i], "sourceSecurityGroupId", <<"source_security_group_id">>)

\* C15: the egress rule of the load balancer security group is constructed
\* with the empty string as source security group and a null override on
\* source_security_group_id; the override is replaced by the identifier of
\* the tasks security group once the network and the computing unit are built
\* and before the continuous-deployment unit starts; in the synthesised output
\* the rule's source_security_group_id is that identifier.
C15_EgressRulePatchedBetweenUnits ==
  /\ \A i \in EgressRulesOf(tree) :
       /\ tree[i].cfg.sourceSecurityGroupId = Str("")
       /\ Cardinality(OverridesAt(tree[i], <<"source_security_group_id">>)) = 1
       /\ IF Returned("patch_egress_rule")
          THEN SourceOfEgressRule(tree, i) = Ref(TasksSecurityGroupKey, "id")
          ELSE SourceOfEgressRule(tree, i) = Null
       /\ SourceOfEgressRule(tree, i) # Null =>
            /\ Ended("network")
            /\ Ended("computing")
            /\ \E j \in 1..Len(tree) : KeyOf(tree[j]) = TasksSecurityGroupKey
  /\ Started("continuous_deployment") =>
       \E i \in EgressRulesOf(tree) :
         SourceOfEgressRule(tree, i) = Ref(TasksSecurityGroupKey, "id")
  /\ pc = "done" =>
       /\ Cardinality(EgressRulesOf(emitted.resources)) = 1
       /\ \A i \in EgressRulesOf(emitted.resources) :
            SourceOfEgressRule(emitted.resources, i) = Ref(TasksSecurityGroupKey, "id")

\* The patched rule in the synthesised output, its placeholder still in the configuration
C15_Witness ==
  /\ pc = "done"
  /\ \E i \in EgressRulesOf(emitted.resources) :
       /\ emitted.resources[i].cfg.sourceSecurityGroupId = Str("")
       /\ [path |-> <<"source_security_group_id">>, val |-> Ref(TasksSecurityGroupKey, "id")]
            \in emitted.resources[i].ovr
       /\ [path |-> <<"source_security_group_id">>, val |-> Null]
            \notin emitted.resources[i].ovr

RegisterCommand == "register-webhook-with-third-party"

DeregisterCommand == "deregister-webhook-with-third-party"

StartCommand == "start-pipeline-execution"

\* The positions in the run of commands at which a command was run
RunsOf(command) == { k \in 1..Len(terraform.ran) : terraform.ran[k] = command }

\* C16: in whatever order the provisioning tool creates the pipeline's
\* resources, the webhook exists only if the pipeline does, the registration
\* command has run only if the webhook exists, the start command runs after
\* the registration command, each at most once; the deregistration command
\* never runs while resources are created, only when they are destroyed.
C16_WebhookCommandsInOrder ==
  /\ WebhookKey \in terraform.created => PipelineKey \in terraform.created
  /\ terraform.phase = "apply" =>
       /\ RunsOf(DeregisterCommand) = {}
       /\ RunsOf(RegisterCommand) # {} => WebhookKey \in terraform.created
       /\ RunsOf(StartCommand) # {} => PipelineKey \in terraform.created
  /\ \A k \in RunsOf(StartCommand) : \E j \in RunsOf(RegisterCommand) : j < k
  /\ Cardinality(RunsOf(RegisterCommand)) <= 1
  /\ Cardinality(RunsOf(StartCommand)) <= 1
  /\ \A k \in RunsOf(DeregisterCommand) :
       /\ terraform.phase = "destroy"
       /\ \E j \in RunsOf(StartCommand) : j < k

\* Everything was created and destroyed again: registration, start, then
\* deregistration
C16_Witness ==
  /\ terraform.phase = "destroy"
  /\ terraform.created = {}
  /\ terraform.ran = <<RegisterCommand, StartCommand, DeregisterCommand>>

\* The descriptors of a type whose id is the stem followed by the number n
Numbered(t, type, base, n) ==
  LET suffix == NumberToString(n)
  IN { t[k] : k \in { j \in 1..Len(t) :
                        /\ t[j].type = type
                        /\ t[j].id.base = base
                        /\ t[j].id.suffix = suffix } }

\* The route-table associations in the tree
Associations(t) == { t[k] : k \in IndicesOfType(t, "aws_route_table_association") }

\* Those of a subnet
AssociationsOf(associations, subnet) ==
  LET id == Ref(KeyOf(subnet), "id")
  IN { association \in associations : association.cfg.subnetId = id }

\* Those that name a route table
AssociationsWith(associations, routeTable) ==
  LET id == Ref(KeyOf(routeTable), "id")
  IN { association \in associations : association.cfg.routeTableId = id }

\* C17: once the route tables are built there is one public route table, its
\* only route sends 0.0.0.0/0 to the internet gateway and every public subnet
\* has exactly one association, with that table; for every i, private subnet
\* i has exactly one association, with a route table no other subnet is
\* associated with, whose only route sends 0.0.0.0/0 to NAT gateway i; NAT
\* gateway i is allocated elastic IP i and sits in public subnet i, whose
\* availability-zone index is that of private subnet i.
C17_SubnetsRouted ==
  Returned("network.route_tables") =>
    LET publicTables == { tree[k] : k \in IndicesOf(tree, "aws_route_table",
                                                    "public_subnets_route_table") }
        publicSubnets == { tree[k] : k \in IndicesOf(tree, "aws_subnet", "public_subnet_") }
        associations == Associations(tree)
    IN /\ Cardinality(publicTables) = 1
       /\ \A table \in publicTables :
            /\ table.cfg.route = << [ cidrBlock |-> Str("0.0.0.0/0"),
                                      gatewayId |-> Ref(InternetGatewayKey, "id") ] >>
            /\ \A subnet \in publicSubnets :
                 /\ Cardinality(AssociationsOf(associations, subnet)) = 1
                 /\ AssociationsOf(associations, subnet)
                      \subseteq AssociationsWith(associations, table)
       /\ \A i \in 1..PrivateSubnetsHandedOver :
            LET privates == Numbered(tree, "aws_subnet", "private_subnet_", i)
                publics == Numbered(tree, "aws_subnet", "public_subnet_", i)
                natGateways == Numbered(tree, "aws_nat_gateway", "nat_gateway_", i)
                elasticIps == Numbered(tree, "aws_eip", "elastic_ip_", i)
                tables == Numbered(tree, "aws_route_table", "private_subnets_route_table_", i)
            IN /\ Cardinality(privates) = 1
               /\ Cardinality(publics) = 1
               /\ Cardinality(natGateways) = 1
               /\ Cardinality(elasticIps) = 1
               /\ Cardinality(tables) = 1
               /\ \A private \in privates, public \in publics, natGateway \in natGateways,
                     elasticIp \in elasticIps, table \in tables :
                    /\ Cardinality(AssociationsOf(associations, private)) = 1
                    /\ AssociationsWith(associations, table)
                         = AssociationsOf(associations, private)
                    /\ table.cfg.route = << [ cidrBlock |-> Str("0.0.0.0/0"),
                                              natGatewayId |-> Ref(KeyOf(natGateway), "id") ] >>
                    /\ natGateway.cfg.allocationId = Ref(KeyOf(elasticIp), "id")
                    /\ natGateway.cfg.subnetId = Ref(KeyOf(public), "id")
                    /\ public.cfg.availabilityZone = private.cfg.availabilityZone

\* Route tables built for three availability zones
C17_Witness ==
  /\ Returned("network.route_tables")
  /\ PrivateSubnetsHandedOver = 3
  /\ CountOf(tree, "aws_route_table", "private_subnets_route_table_") = 3
  /\ CountOf(tree, "aws_route_table_association",
             "private_subnets_route_table_association_") = 3

\* The listeners of the load balancer that listen on a port
ListenersOn(t, port) ==
  { t[k] : k \in { j \in IndicesOfType(t, "aws_lb_listener") : t[j].cfg.port = port } }

\* The listener's one default action forwards to the target group
ForwardsToTargetGroup(listener) ==
  /\ Len(listener.cfg.defaultAction) = 1
  /\ listener.cfg.defaultAction[1].type = "forward"
  /\ listener.cfg.defaultAction[1].targetGroupArn = Ref(LbTargetGroupKey, "arn")

\* The listener's one default action redirects to HTTPS on port 443
RedirectsToHttps(listener) ==
  /\ Len(listener.cfg.defaultAction) = 1
  /\ listener.cfg.defaultAction[1].type = "redirect"
  /\ listener.cfg.defaultAction[1].port = "443"
  /\ listener.cfg.defaultAction[1].protocol = "HTTPS"
  /\ listener.cfg.defaultAction[1].targetGroupArn = Null

\* C18: once the load balancer is built it has exactly two listeners, both
\* of the one load balancer, one on port 443 and one on port 80; the port-443
\* listener forwards to the target group whatever the HTTPS flag; the port-80
\* listener redirects to port 443 when the flag is true and forwards to the
\* target group when it is false, and names the port-443 listener among its
\* dependencies exactly when it redirects.
C18_TwoListeners ==
  Returned("network.application_load_balancer") =>
    /\ Cardinality(IndicesOfType(tree, "aws_lb_listener")) = 2
    /\ Cardinality(ListenersOn(tree, 443)) = 1
    /\ Cardinality(ListenersOn(tree, 80)) = 1
    /\ \A https \in ListenersOn(tree, 443) :
         /\ ForwardsToTargetGroup(https)
         /\ https.cfg.loadBalancerArn = Ref(LbKey, "arn")
         /\ KeyOf(https) = LbHttpsListenerKey
    /\ \A http \in ListenersOn(tree, 80) :
         /\ http.cfg.loadBalancerArn = Ref(LbKey, "arn")
         /\ IF props.enableHttps THEN RedirectsToHttps(http) ELSE ForwardsToTargetGroup(http)
         /\ LbHttpsListenerKey \in Range(http.cfg.dependsOn) <=> RedirectsToHttps(http)
         /\ LbHttpsListenerKey \in http.uses <=> RedirectsToHttps(http)

\* The load balancer built with the HTTPS flag set: port 80 redirects
C18_Witness ==
  /\ Returned("network.application_load_balancer")
  /\ props.enableHttps
  /\ \E http \in ListenersOn(tree, 80) :
       RedirectsToHttps(http) /\ LbHttpsListenerKey \in Range(http.cfg.dependsOn)

\* The certificates in the tree
CertificatesOf(t) == { t[k] : k \in IndicesOfType(t, "aws_acm_certificate") }

\* C19: for every non-empty list of domain names the certificate unit returns
\* with one certificate whose primary name is the first name and whose
\* alternate names are the remaining names in their order, and with one
\* validation record per name of the list, the k-th record (counted from
\* zero, as the list is) reading validation option k of that certificate.
C19_CertificateFollowsDomainList ==
  /\ Ran("network.ssl") /\ Len(props.domainNames) > 0 => Returned("network.ssl")
  /\ Returned("network.ssl") =>
       /\ Len(props.domainNames) > 0
       /\ Cardinality(IndicesOfType(tree, "aws_acm_certificate")) = 1
       /\ Len(sslValidationDnsRecords) = Len(props.domainNames)
       /\ \A certificate \in CertificatesOf(tree) :
            /\ certificate.cfg.domainName = Head(props.domainNames)
            /\ certificate.cfg.subjectAlternativeNames = Tail(props.domainNames)
            /\ \A k \in 0..(Len(props.domainNames) - 1) :
                 /\ sslValidationDnsRecords[k + 1].certificate = KeyOf(certificate)
                 /\ sslValidationDnsRecords[k + 1].option = k

\* A certificate for three names: two alternates, three validation records
C19_Witness ==
  /\ Returned("network.ssl")
  /\ props.domainNames = ThreeDomainNames
  /\ Len(sslValidationDnsRecords) = 3
  /\ \E certificate \in CertificatesOf(tree) :
       Len(certificate.cfg.subjectAlternativeNames) = 2

\* The service is configured as ServiceConstruct is asked to
ServiceAsConfigured ==
  Returned("computing.service") =>
    /\ Cardinality(IndicesOfType(tree, "aws_ecs_service")) = 1
    /\ \A k \in IndicesOfType(tree, "aws_ecs_service") :
         /\ tree[k].cfg.desiredCount = props.minimumNumberOfRunningFargateTasks
         /\ tree[k].cfg.deploymentMaximumPercent = 200
         /\ tree[k].cfg.deploymentMinimumHealthyPercent = 100
         /\ "desired_count" \in Range(tree[k].cfg.ignoreChanges)

\* C20: the service's desired count is the configured minimum number of
\* tasks, its deployment bounds are 200% and 100%, desired_count is in its
\* ignored-changes list; the service is created with that desired count, and
\* applying to the existing service a configuration that differs in the
\* desired count leaves the live desired count as it was.
C20_DesiredCountLeftToAutoScaling ==
  /\ []ServiceAsConfigured
  /\ [][ /\ TerraformCreateService =>
              terraform'.desiredCount = props.minimumNumberOfRunningFargateTasks
         /\ TerraformReapplyService =>
              terraform'.desiredCount = terraform.desiredCount ]_vars

\* A configuration with another desired count was applied to the existing
\* service, nothing scales it, and it still runs the count it was created with
C20_Witness ==
  /\ pc = "done"
  /\ terraform.reapplied
  /\ terraform.planned # terraform.desiredCount
  /\ IndicesOfType(emitted.resources, "aws_appautoscaling_target") = {}
  /\ terraform.desiredCount = props.minimumNumberOfRunningFargateTasks

\* A resource pattern of a policy statement covers a resource: "*" covers
\* everything, a pattern ending in "*" everything under what precedes it, a
\* pattern ending in ":*" everything named <what precedes>:<something>
Covers(pattern, resource) ==
  LET n == Len(pattern)
  IN IF pattern = <<"*">> THEN TRUE
     ELSE IF pattern[n] = "*"
     THEN Len(resource) >= n /\ SubSeq(resource, 1, n - 1) = SubSeq(pattern, 1, n - 1)
     ELSE IF pattern[n] = ":*"
     THEN /\ Len(resource) > n
          /\ SubSeq(resource, 1, n - 1) = SubSeq(pattern, 1, n - 1)
          /\ resource[n] = ":"
     ELSE pattern = resource

\* The statements allow the action on the resource
Allows(statements, action, resource) ==
  \E k \in 1..Len(statements) :
    /\ statements[k].effect = "Allow"
    /\ action \in statements[k].actions
    /\ \E pattern \in statements[k].resources : Covers(pattern, resource)

\* The statements of the policy documents of a name in the tree
StatementsOf(t, base) ==
  { t[k].cfg.statement : k \in IndicesOf(t, "data.aws_iam_policy_document", base) }

ImagePullActions ==
  {"ecr:BatchCheckLayerAvailability", "ecr:GetDownloadUrlForLayer", "ecr:BatchGetImage"}

LogWriteActions == {"logs:CreateLogStream", "logs:PutLogEvents"}

ParameterReadActions == {"ssm:GetParameters"}

\* Actions a policy could name: those above, the registry login, and one
\* more of each service
ActionUniverse ==
  ImagePullActions \cup LogWriteActions \cup ParameterReadActions
    \cup {"ecr:GetAuthorizationToken", "ecr:PutImage", "logs:DeleteLogGroup",
          "ssm:PutParameter", "sts:AssumeRole"}

TheRepository == EcrRepositoryKey \o <<"arn">>

TheLogGroup == ContainersLogsGroupKey \o <<"arn">>

TheLogStreams == ContainersLogsGroupKey \o <<"arn", ":", "log-stream">>

ApplicationParameter == <<"parameter", "fargate-tasks-env", "K">>

BuildParameter == <<"parameter", "builds-env", "K">>

\* Resources of the account: the ones the unit names and others of each kind
ResourceUniverse ==
  { TheRepository, <<"aws_ecr_repository", "another_repository", "arn">>,
    TheLogGroup, TheLogStreams,
    <<"aws_cloudwatch_log_group", "another_logs_group", "arn">>,
    <<"aws_cloudwatch_log_group", "another_logs_group", "arn", ":", "log-stream">>,
    ApplicationParameter, BuildParameter, <<"parameter", "K">>,
    <<"parameter", "another", "fargate-tasks-env", "K">> }

\* What the execution role's policy is said to grant, at most
ExecutionRoleScope ==
  (ImagePullActions \X {TheRepository})
    \cup (LogWriteActions \X {TheLogGroup, TheLogStreams})
    \cup (ParameterReadActions \X {ApplicationParameter})

\* The role's trust policy lets the container-execution principal, and no
\* other, assume it
TrustsOnlyContainerExecution(t) ==
  /\ \A k \in IndicesOf(t, "aws_iam_role", "fargate_tasks_execution_role") :
       t[k].cfg.assumeRolePolicy = "fargate_tasks_assume_role_policy"
  /\ Cardinality(StatementsOf(t, "fargate_tasks_assume_role_policy")) = 1
  /\ \A statements \in StatementsOf(t, "fargate_tasks_assume_role_policy") :
       /\ Len(statements) = 1
       /\ statements[1].effect = "Allow"
       /\ statements[1].actions = {"sts:AssumeRole"}
       /\ statements[1].principals = {<<"Service", "ecs-tasks.amazonaws.com">>}

\* C21 as stated: the execution role's policy allows image pulls on the one
\* repository, log writes on the containers log group and parameter reads
\* under fargate-tasks-env, and no action of any kind on any other resource;
\* only the container-execution principal may assume the role.
C21_ExecutionRoleGrantsNothingElse ==
  Returned("computing.task") =>
    /\ TrustsOnlyContainerExecution(tree)
    /\ Cardinality(StatementsOf(tree, "fargate_tasks_execution_role_policy_document")) = 1
    /\ \A statements \in StatementsOf(tree, "fargate_tasks_execution_role_policy_document") :
         \A action \in ActionUniverse, resource \in ResourceUniverse :
           Allows(statements, action, resource) <=> <<action, resource>> \in ExecutionRoleScope

\* C21: the execution role's policy allows image pulls on the one repository
\* only, log writes on the containers log group and its streams only,
\* parameter reads under fargate-tasks-env only, and besides these one action,
\* the registry login ecr:GetAuthorizationToken, which it allows on every
\* resource; only the container-execution principal may assume the role.
C21_ExecutionRoleScopedButForLogin ==
  Returned("computing.task") =>
    /\ TrustsOnlyContainerExecution(tree)
    /\ Cardinality(StatementsOf(tree, "fargate_tasks_execution_role_policy_document")) = 1
    /\ \A statements \in StatementsOf(tree, "fargate_tasks_execution_role_policy_document") :
         \A action \in ActionUniverse, resource \in ResourceUniverse :
           Allows(statements, action, resource)
             <=> \/ <<action, resource>> \in ExecutionRoleScope
                 \/ action = "ecr:GetAuthorizationToken"

\* The tasks unit has built the role and its policy document
C21_Witness ==
  /\ Returned("computing.task")
  /\ IndicesOf(tree, "aws_iam_role_policy", "fargate_tasks_execution_role_policy") # {}
  /\ \E statements \in StatementsOf(tree, "fargate_tasks_execution_role_policy_document") :
       /\ Allows(statements, "ssm:GetParameters", ApplicationParameter)
       /\ ~Allows(statements, "ssm:GetParameters", BuildParameter)

\* The secret parameters of a category, in the order of their creation
ParametersOf(t, category) ==
  Select(t, "aws_ssm_parameter",
         IF category = "application" THEN "ssm_parameter_application_"
         ELSE "ssm_parameter_builds_")

\* The task definitions of an id
TaskDefinitionsOf(t, base) == { t[k] : k \in IndicesOf(t, "aws_ecs_task_definition", base) }

\* The one container of the task definition lists the parameters as its
\* secrets, in their order, and passes none of their values in plain
ListsAsSecretsOnly(taskDefinition, parameters) ==
  /\ Len(taskDefinition.cfg.containerDefinitions) = 1
  /\ LET container == taskDefinition.cfg.containerDefinitions[1]
     IN /\ Len(container.secrets) = Len(parameters)
        /\ \A k \in 1..Len(parameters) :
             /\ container.secrets[k].name = parameters[k].cfg.name
             /\ container.secrets[k].valueFrom = Ref(KeyOf(parameters[k]), "arn")
        /\ \A e \in 1..Len(container.environment), k \in 1..Len(parameters) :
             container.environment[e].value # parameters[k].cfg.value

\* C22: once the tasks unit is built there is one secret parameter per
\* application variable, in the variables' order, and the main and the
\* pre-deploy task definition each list every one of them exactly once in
\* their secrets, in that order, with the variable's name and a reference to
\* the parameter; neither passes a variable's value as a plain value.
C22_VariablesReachTasksAsSecrets ==
  Returned("computing.task") =>
    LET parameters == ParametersOf(tree, "application")
    IN /\ Len(parameters) = Len(props.environmentVariables)
       /\ \A k \in 1..Len(parameters) : parameters[k].cfg.name = props.environmentVariables[k]
       /\ \A j, k \in 1..Len(parameters) :
            parameters[j].cfg.name = parameters[k].cfg.name => j = k
       /\ Cardinality(TaskDefinitionsOf(tree, "main_fargate_tasks_definition")) = 1
       /\ Cardinality(TaskDefinitionsOf(tree, "pre_deploy_fargate_tasks_definition")) = 1
       /\ \A taskDefinition \in TaskDefinitionsOf(tree, "main_fargate_tasks_definition")
                                  \cup TaskDefinitionsOf(tree, "pre_deploy_fargate_tasks_definition") :
            ListsAsSecretsOnly(taskDefinition, parameters)

\* Task definitions built for two application variables
C22_Witness ==
  /\ Returned("computing.task")
  /\ Len(props.environmentVariables) = 2
  /\ \E taskDefinition \in TaskDefinitionsOf(tree, "pre_deploy_fargate_tasks_definition") :
       Len(taskDefinition.cfg.containerDefinitions[1].secrets) = 2

\* The build projects of an id
ProjectsOf(t, base) == { t[k] : k \in IndicesOf(t, "aws_codebuild_project", base) }

BuildProjectIds ==
  {"codebuild_build_project", "codebuild_test_project", "codebuild_pre_deploy_project"}

\* The positions of the project's variables that are not parameter-store references
PlainVariablesOf(project) ==
  { k \in 1..Len(project.cfg.environmentVariable) :
      project.cfg.environmentVariable[k].type # "PARAMETER_STORE" }

\* The project has exactly one variable of the parameter's variable name, a
\* parameter-store reference to the parameter
ReceivesAsReference(project, parameter) ==
  LET references == (1..Len(project.cfg.environmentVariable)) \ PlainVariablesOf(project)
  IN /\ Cardinality({ k \in references :
                        project.cfg.environmentVariable[k].name = parameter.cfg.tags.name }) = 1
     /\ \A k \in references :
          project.cfg.environmentVariable[k].name = parameter.cfg.tags.name =>
            project.cfg.environmentVariable[k].value = Ref(KeyOf(parameter), "name")

\* The project has a plain variable of the name with the value
ReceivesInPlain(project, name, value) ==
  \E k \in PlainVariablesOf(project) :
    /\ project.cfg.environmentVariable[k].name = name
    /\ project.cfg.environmentVariable[k].value = value

\* The project has a plain variable with the value, whatever its name
CarriesInPlain(project, value) ==
  \E k \in PlainVariablesOf(project) : project.cfg.environmentVariable[k].value = value

RepositoryUri == Ref(EcrRepositoryKey, "repository_url")

ContainerName == Str("main")

\* C23 as stated: each of the three build projects receives every secret
\* parameter, of the application and of the builds, as a parameter-store
\* reference; the build project receives the repository URI and the container
\* name as plain variables, and neither of the two other projects receives
\* either of them.
C23_EverySecretAndOnlyBuildInPlain ==
  Returned("continuous_deployment.builds") =>
    /\ \A base \in BuildProjectIds :
         /\ Cardinality(ProjectsOf(tree, base)) = 1
         /\ \A project \in ProjectsOf(tree, base) :
              \A k \in IndicesOfType(tree, "aws_ssm_parameter") :
                ReceivesAsReference(project, tree[k])
    /\ \A project \in ProjectsOf(tree, "codebuild_build_project") :
         /\ ReceivesInPlain(project, "AWS_ECR_REPOSITORY_URI", RepositoryUri)
         /\ ReceivesInPlain(project, "CONTAINER_NAME", ContainerName)
    /\ \A project \in ProjectsOf(tree, "codebuild_test_project")
                        \cup ProjectsOf(tree, "codebuild_pre_deploy_project") :
         /\ ~CarriesInPlain(project, RepositoryUri)
         /\ ~CarriesInPlain(project, ContainerName)

\* C23: each of the three build projects receives every secret parameter of
\* the builds, in their order, as a parameter-store reference, and no secret
\* parameter of the application; no parameter's value is a plain variable;
\* the test project receives nothing else; the build project receives two
\* plain variables besides, the repository URI and the container name; the
\* pre-deploy project receives nine plain variables besides, the container
\* name among them and the repository URI not.
C23_BuildSecretsByReference ==
  Returned("continuous_deployment.builds") =>
    LET builds == ParametersOf(tree, "builds")
        application == ParametersOf(tree, "application")
    IN /\ Len(builds) = Len(props.buildsEnvironmentVariables)
       /\ \A project \in ProjectsOf(tree, "codebuild_test_project") :
            PlainVariablesOf(project) = {}
       /\ \A base \in BuildProjectIds :
            /\ Cardinality(ProjectsOf(tree, base)) = 1
            /\ \A project \in ProjectsOf(tree, base) :
                 LET variables == project.cfg.environmentVariable
                     plain == Cardinality(PlainVariablesOf(project))
                 IN /\ PlainVariablesOf(project) = 1..plain
                    /\ Len(variables) = plain + Len(builds)
                    /\ \A k \in 1..Len(builds) :
                         /\ variables[plain + k].name = builds[k].cfg.tags.name
                         /\ variables[plain + k].value = Ref(KeyOf(builds[k]), "name")
                         /\ ReceivesAsReference(project, builds[k])
                         /\ ~CarriesInPlain(project, builds[k].cfg.value)
                    /\ \A k \in 1..Len(application) :
                         /\ \A j \in 1..Len(variables) :
                              variables[j].value # Ref(KeyOf(application[k]), "name")
                         /\ ~CarriesInPlain(project, application[k].cfg.value)
       /\ \A project \in ProjectsOf(tree, "codebuild_build_project") :
            /\ Cardinality(PlainVariablesOf(project)) = 2
            /\ ReceivesInPlain(project, "AWS_ECR_REPOSITORY_URI", RepositoryUri)
            /\ ReceivesInPlain(project, "CONTAINER_NAME", ContainerName)
       /\ \A project \in ProjectsOf(tree, "codebuild_pre_deploy_project") :
            /\ Cardinality(PlainVariablesOf(project)) = 9
            /\ ReceivesInPlain(project, "AWS_ECS_PRE_DEPLOY_TASK_CONTAINER_NAME", ContainerName)
            /\ ~CarriesInPlain(project, RepositoryUri)

\* The build projects built with one variable of the builds and one of the
\* application
C23_Witness ==
  /\ Returned("continuous_deployment.builds")
  /\ Len(props.buildsEnvironmentVariables) = 1
  /\ Len(props.environmentVariables) = 1
  /\ \E project \in ProjectsOf(tree, "codebuild_test_project") :
       Len(project.cfg.environmentVariable) = 1

\* The unit whose constructor a statement of the composition belongs to
UnitOfStage(stage) ==
  CASE stage \in {"network.vpc", "network.internet_gateway", "network.subnets",
                  "network.elastic_ips", "network.nat_gateways", "network.route_tables",
                  "network.ssl", "network.application_load_balancer"} -> "network"
    [] stage \in {"computing.containers_logs_group", "computing.environment_variables",
                  "computing.cluster", "computing.repository", "computing.task",
                  "computing.service", "computing.auto_scaling"} -> "computing"
    [] stage \in {"continuous_deployment.builds", "continuous_deployment.pipeline"}
         -> "continuous_deployment"
    [] stage = "dashboard" -> "dashboard"
    [] OTHER -> "root"

\* The descriptors of the tree that the step changes
WrittenInStep == { i \in 1..Len(tree) : i <= Len(tree') /\ tree'[i] # tree[i] }

\* The descriptors the step creates
CreatedInStep == { i \in 1..Len(tree') : i > Len(tree) }

\* Every descriptor the step creates belongs to the unit whose statement runs,
\* under an id no other descriptor of its scope has, and no step removes one
CreatedByRunningUnit ==
  /\ Len(tree') >= Len(tree)
  /\ \A i \in CreatedInStep :
       /\ tree'[i].unit = UnitOfStage(pc)
       /\ \A j \in 1..(i - 1) :
            ~(tree'[j].scope = tree'[i].scope /\ tree'[j].id = tree'[i].id)
  /\ \A i \in 1..Len(tree) :
       /\ tree'[i].unit = tree[i].unit
       /\ KeyOf(tree'[i]) = KeyOf(tree[i])

\* The root's write to the network unit's egress rule
RootWritesEgressRule(i) ==
  /\ pc = "patch_egress_rule"
  /\ tree[i].unit = "network"
  /\ KeyOf(tree[i]) = LbEgressRuleKey
  /\ tree'[i] = addOverride(tree[i], <<"source_security_group_id">>,
                            Ref(TasksSecurityGroupKey, "id"))

\* C24 as stated: every descriptor is created by exactly one unit, and a step
\* changes a descriptor only while a statement of its creator runs.
C24_OnlyCreatorWrites ==
  [][ /\ CreatedByRunningUnit
      /\ \A i \in WrittenInStep : tree[i].unit = UnitOfStage(pc) ]_vars

\* C24: every descriptor is created by exactly one unit and stays that unit's;
\* a step changes a descriptor only while a statement of its creator runs, but
\* for one write: the root overrides source_security_group_id on the network
\* unit's load balancer egress rule with the id of the computing unit's tasks
\* security group.
C24_OnlyCreatorWritesButForEgressRule ==
  [][ /\ CreatedByRunningUnit
      /\ \A i \in WrittenInStep :
           tree[i].unit = UnitOfStage(pc) \/ RootWritesEgressRule(i)
      /\ pc = "patch_egress_rule" /\ pc' # "failed" =>
           \E i \in WrittenInStep : RootWritesEgressRule(i) ]_vars

\* The root has overridden the egress rule and the units after it are built
C24_Witness ==
  /\ pc = "done"
  /\ \E i \in 1..Len(tree) :
       /\ KeyOf(tree[i]) = LbEgressRuleKey
       /\ tree[i].unit = "network"
       /\ [path |-> <<"source_security_group_id">>,
           val |-> Ref(TasksSecurityGroupKey, "id")] \in tree[i].ovr
  /\ \E i \in 1..Len(tree) : tree[i].unit = "continuous_deployment"

(***************************************************************************)
(* SubnetsConstruct over the zone counts up to MaxSubnetZones: the network *)
(* unit composed up to its subnets                                         *)
(***************************************************************************)
\* The properties of a caller that passes a zone count of its own
SubnetZonesProps ==
  [ domainNames : { <<ExampleCom>> },
    enableHttps : { FALSE },
    numberOfAvailabilityZonesUsed : 1..MaxSubnetZones,
    enableAutoScaling : { FALSE },
    autoScalingCpuLimitPercent : { 100 },
    autoScalingMemoryLimitPercent : { 100 },
    minimumNumberOfRunningFargateTasks : { 1 },
    maximumNumberOfRunningFargateTasks : { 1 },
    environmentVariables : { <<>> },
    buildsEnvironmentVariables : { <<>> },
    containerListenPort : { 80 },
    natGatewaysWithheld : { 0 },
    privateSubnetsWithheld : { 0 } ]

InitSubnets ==
  /\ input \in [ caller : {"direct"}, env : {NoEnv}, props : SubnetZonesProps ]
  /\ Fresh
  /\ run = 1
  /\ previous = NothingEmitted
  /\ terraform = NothingApplied

NextSubnets ==
  \/ DirectCall
  \/ VpcConstruct
  \/ InternetGatewayConstruct
  \/ SubnetsConstruct

SpecSubnets == InitSubnets /\ [][NextSubnets]_vars

\* The network numbers of the subnets of a stem, in the order of creation
NetnumsOf(t, base) ==
  LET subnets == Select(t, "aws_subnet", base)
  IN [k \in 1..Len(subnets) |-> subnets[k].cfg.netnum]

\* C25 as stated: whatever the zone count, private subnet i has network number
\* i and public subnet i has i + 128 (i from 0), the network numbers of all
\* private and public subnets are pairwise distinct, and each lies in 0..255.
C25_NetnumsDistinctAndInRange ==
  Returned("network.subnets") =>
    LET private == NetnumsOf(tree, "private_subnet_")
        public == NetnumsOf(tree, "public_subnet_")
        all == private \o public
    IN /\ \A k \in 1..Len(private) : private[k] = k - 1
       /\ \A k \in 1..Len(public) : public[k] = k - 1 + 128
       /\ Cardinality(Range(all)) = Len(all)
       /\ \A k \in 1..Len(all) : all[k] \in 0..255

\* The step runs the command
RunsInStep(command) ==
  /\ Len(terraform'.ran) = Len(terraform.ran) + 1
  /\ terraform'.ran[Len(terraform'.ran)] = command

\* C26: in whatever order the provisioning tool destroys the pipeline's
\* resources, the step that runs the deregistration command finds the
\* registration resource destroyed and leaves the webhook and the pipeline in
\* existence; neither the webhook nor the pipeline is destroyed before the
\* command has run, and it runs at most once.
C26_DeregistrationWhileWebhookExists ==
  /\ [](terraform.phase = "destroy" =>
          /\ (WebhookKey \notin terraform.created \/ PipelineKey \notin terraform.created)
               => RunsOf(DeregisterCommand) # {}
          /\ Cardinality(RunsOf(DeregisterCommand)) <= 1
          /\ DeregisterWebhookKey \notin terraform.created
               => RunsOf(DeregisterCommand) # {})
  /\ [][ RunsInStep(DeregisterCommand) =>
           /\ terraform'.phase = "destroy"
           /\ RegisterWebhookKey \notin terraform.created
           /\ DeregisterWebhookKey \in terraform.created
           /\ DeregisterWebhookKey \notin terraform'.created
           /\ WebhookKey \in terraform'.created
           /\ PipelineKey \in terraform'.created ]_vars

\* The deregistration command has just run: the registration is destroyed,
\* the webhook and the pipeline are not yet
C26_Witness ==
  /\ terraform.phase = "destroy"
  /\ terraform.ran = <<RegisterCommand, StartCommand, DeregisterCommand>>
  /\ RegisterWebhookKey \notin terraform.created
  /\ DeregisterWebhookKey \notin terraform.created
  /\ WebhookKey \in terraform.created
  /\ PipelineKey \in terraform.created

\* C27 as stated: whatever names the root's name check accepts, two distinct
\* application variable names, and two distinct build variable names, get
\* distinct construct ids in the environment-variables unit; the unit does not
\* fail and builds one parameter per name.
C27_AcceptedNamesGetOwnParameters ==
  Ran("computing.environment_variables") =>
    /\ \A a, b \in Range(props.environmentVariables) :
         a # b => SsmParameterId("application", a) # SsmParameterId("application", b)
    /\ \A a, b \in Range(props.buildsEnvironmentVariables) :
         a # b => SsmParameterId("builds", a) # SsmParameterId("builds", b)
    /\ ~ThrewAt("computing.environment_variables")
    /\ Len(ParametersOf(tree, "application")) = Len(props.environmentVariables)
    /\ Len(ParametersOf(tree, "builds")) = Len(props.buildsEnvironmentVariables)

\* The resource a secret parameter is to the policies: parameter, the path of
\* its category, its name
ParameterResource(parameter) == <<"parameter", parameter.cfg.path>> \o parameter.cfg.name

\* The statements, whatever their conditions, allow reading the parameter
AllowsReading(statements, parameter) ==
  \E action \in ParameterReadActions :
    Allows(statements, action, ParameterResource(parameter))

\* The path patterns on which the statements grant reads of parameters
ParameterPathsOf(statements) ==
  UNION { statements[k].resources :
            k \in { j \in 1..Len(statements) :
                      statements[j].actions \cap ParameterReadActions # {} } }

\* C28: every application secret parameter's name lies under
\* fargate-tasks-env, the one path the execution role's policy grants reads
\* on; every build secret parameter's name lies under builds-env, the one path
\* the build role's policy grants reads on; the execution role's policy allows
\* reading no build parameter and the build role's policy no application
\* parameter.
C28_ParametersUnderGrantedPaths ==
  Returned("continuous_deployment.builds") =>
    LET application == ParametersOf(tree, "application")
        builds == ParametersOf(tree, "builds")
        execution == StatementsOf(tree, "fargate_tasks_execution_role_policy_document")
        buildsRole == StatementsOf(tree, "codebuild_role_policy_document")
    IN /\ Cardinality(execution) = 1
       /\ Cardinality(buildsRole) = 1
       /\ \A statements \in execution :
            /\ ParameterPathsOf(statements) = {<<"parameter", "fargate-tasks-env", "*">>}
            /\ \A k \in 1..Len(application) : AllowsReading(statements, application[k])
            /\ \A k \in 1..Len(builds) : ~AllowsReading(statements, builds[k])
       /\ \A statements \in buildsRole :
            /\ ParameterPathsOf(statements) = {<<"parameter", "builds-env", "*">>}
            /\ \A k \in 1..Len(builds) : AllowsReading(statements, builds[k])
            /\ \A k \in 1..Len(application) : ~AllowsReading(statements, application[k])
       /\ \A k \in 1..Len(application) :
            SubSeq(ParameterResource(application[k]), 1, 2) = <<"parameter", "fargate-tasks-env">>
       /\ \A k \in 1..Len(builds) :
            SubSeq(ParameterResource(builds[k]), 1, 2) = <<"parameter", "builds-env">>

\* Both roles' policies built, with one parameter of each category
C28_Witness ==
  /\ Returned("continuous_deployment.builds")
  /\ Len(ParametersOf(tree, "application")) = 1
  /\ Len(ParametersOf(tree, "builds")) = 1
  /\ StatementsOf(tree, "codebuild_role_policy_document") # {}

\* The zone count and the container port the root reads
ZonesRead == Number(input.env.NUMBER_OF_AVAILABILITY_ZONES_USED)

PortRead == Number(input.env.CONTAINER_LISTEN_PORT)

\* C29: when the root reads a zone count N >= 1 and goes on, the minimum
\* number of tasks is N, the maximum is the least integer not below 1.5 * N,
\* 1 <= minimum <= maximum, both auto-scaling limits are 75, and neither the
\* service's nor the auto-scaling unit's validation fails; when the zone
\* count or the container port is 0 or not a number, the root fails before
\* any unit is begun and any descriptor built.
C29_DerivedTaskCountsPassValidation ==
  input.caller = "main" /\ pc # "start" =>
    /\ ~ThrewAt("start") /\ ZonesRead.n >= 1 =>
         /\ props.minimumNumberOfRunningFargateTasks = ZonesRead.n
         /\ 2 * props.maximumNumberOfRunningFargateTasks \in
              {3 * ZonesRead.n, 3 * ZonesRead.n + 1}
         /\ 1 <= props.minimumNumberOfRunningFargateTasks
         /\ props.minimumNumberOfRunningFargateTasks <= props.maximumNumberOfRunningFargateTasks
         /\ props.autoScalingCpuLimitPercent = 75
         /\ props.autoScalingMemoryLimitPercent = 75
         /\ ~ThrewAt("computing.service")
         /\ ~ThrewAt("computing.auto_scaling")
         /\ pc = "done" =>
              /\ CountOf(tree, "aws_ecs_service", "fargate_service") = 1
              /\ props.enableAutoScaling =>
                   CountOf(tree, "aws_appautoscaling_target", "fargate_auto_scaling_target") = 1
    /\ ~Truthy(ZonesRead) \/ ~Truthy(PortRead) =>
         /\ ThrewAt("start")
         /\ tree = <<>>
         /\ unitLog = <<>>

\* A full composition with three zones and auto-scaling: three to five tasks
C29_Witness ==
  /\ input.caller = "main"
  /\ pc = "done"
  /\ ZonesRead.n = 3
  /\ props.enableAutoScaling
  /\ props.minimumNumberOfRunningFargateTasks = 3
  /\ props.maximumNumberOfRunningFargateTasks = 5
  /\ CountOf(tree, "aws_appautoscaling_target", "fargate_auto_scaling_target") = 1

\* The number of commas of a string
Commas(s) == Cardinality({ i \in 1..Len(s) : s[i] = "," })

\* C30: whatever DOMAIN_NAMES holds, the empty string included, the domain
\* list the root hands to the certificate unit has one element more than the
\* string has commas, hence at least one; the certificate unit does not fail
\* for want of a domain name; and from an empty DOMAIN_NAMES the certificate
\* is built with the empty string as its primary name and no alternative name.
C30_DomainListNeverEmpty ==
  input.caller = "main" /\ pc # "start" /\ ~ThrewAt("start") =>
    /\ Len(props.domainNames) = Commas(input.env.DOMAIN_NAMES) + 1
    /\ Len(props.domainNames) >= 1
    /\ ~ThrewAt("network.ssl")
    /\ error # "You must specify at least one domain name"
    /\ Returned("network.ssl") =>
         /\ Cardinality(CertificatesOf(tree)) = 1
         /\ input.env.DOMAIN_NAMES = <<>> =>
              \A certificate \in CertificatesOf(tree) :
                /\ certificate.cfg.domainName = <<>>
                /\ certificate.cfg.subjectAlternativeNames = <<>>

\* The certificate built from an empty DOMAIN_NAMES
C30_Witness ==
  /\ input.caller = "main"
  /\ input.env.DOMAIN_NAMES = <<>>
  /\ Returned("network.ssl")
  /\ \E certificate \in CertificatesOf(tree) : certificate.cfg.domainName = <<>>

====
